---- MODULE Spec2Model ----
(***************************************************************************)
(* A model of the job synchronisation of TallerPro AI: the merge of the    *)
(* local job list with the remote store (Firestore or a Google Sheet), the *)
(* row codec of the sheet backend, and the application handlers that start *)
(* syncs.                                                                  *)
(*                                                                         *)
(* A Job is a function from the keys it owns to their values, so that an   *)
(* object spread {...r, ...l} is a function override.  A key that is       *)
(* present with the value undefined holds UndefStr (UndefArr for the array *)
(* field damageImages); a key the object does not own is outside DOMAIN.   *)
(* A timestamp is a small integer, NaN is the integer NaN below, and the   *)
(* ISO text of a timestamp is the string IsoOf[t].                         *)
(***************************************************************************)
EXTENDS Integers, Sequences, FiniteSets, TLC

VARIABLES
  canvas,      \* whether canvas.getContext('2d') gives a context in this browser
  steady,      \* the JPEGs drawn again so far: encoded to the same string, or changed
  backend,     \* which remote store this scenario talks to
  localJobs,   \* the caller's job list, the argument of the next sync
  fbDocs,      \* Firestore collection 'jobs': document id -> document data
  sheet,       \* the spreadsheet: the tab, its header row, its data rows
  call,        \* the sync invocation that is running, or the last one
  run,         \* App: mounted or not, and the handler calls made so far
  jobs,        \* App: the in-memory job list (useState), as last rendered
  settings,    \* App: the settings record (useState), as last rendered
  syncStatus,  \* App: 'idle' | 'syncing' | 'synced' | 'error', as last rendered
  inflight,    \* App: the syncWithFirebase calls that have not settled
  timers       \* App: pending setTimeout(() => setSyncStatus('idle'), 3000)

vars == <<canvas, steady, backend, localJobs, fbDocs, sheet, call,
          run, jobs, settings, syncStatus, inflight, timers>>

syncVars == <<canvas, steady, backend, localJobs, fbDocs, sheet, call>>
appVars  == <<run, jobs, settings, syncStatus, inflight, timers>>

(***************************************************************************)
(* Bounds of the model.                                                    *)
(***************************************************************************)
MaxEntries == 3   \* jobs in the local list plus entries in the remote store
MaxSyncs == 2     \* syncs the caller of Spec starts, one after the other
MaxAppJobs == 1   \* jobs the intake form creates in one run of the App
MaxInflight == 2  \* syncs of the App that may be pending at once
MaxEdits == 1     \* handleUpdateJob calls in one run of the App
MaxUploads == 2   \* handleImageUpload calls that may wait for the analysis at once

(***************************************************************************)
(* JavaScript values.                                                      *)
(***************************************************************************)
UndefStr == "<undefined>"
UndefArr == << "<undefined>" >>
NaN == 0 - 1

Times == {1, 2, 3}
\* the values of Date.now() during a run
NowTimes == {2, 3}
\* new Date(t).toISOString()
IsoOf == [t \in Times |-> CASE t = 1 -> "1970-01-01T00:00:00.001Z"
                            [] t = 2 -> "1970-01-01T00:00:00.002Z"
                            [] t = 3 -> "1970-01-01T00:00:00.003Z"]

Range(s) == {s[i] : i \in 1..Len(s)}

SeqsUpTo(S, n) == UNION {[1..k -> S] : k \in 0..n}

ImageKeys == {"intakeImage", "damageImages"}
NonImageKeys == {"id", "createdAt", "status", "carDetails", "identifiedParts",
                 "manualNotes", "repairType"}

Undef(k) == IF k = "damageImages" THEN UndefArr ELSE UndefStr

\* obj[k]: the value of key k, undefined when the object does not own it
Val(obj, k) == IF k \in DOMAIN obj THEN obj[k] ELSE Undef(k)

\* JS truthiness of a string-or-undefined value
Truthy(v) == v # UndefStr /\ v # ""

\* lJob.damageImages && lJob.damageImages.length > 0
NonEmptyArr(v) == v # UndefArr /\ Len(v) > 0

\* { ...rObj, ...lObj }
Spread(rObj, lObj) ==
  [k \in DOMAIN rObj \cup DOMAIN lObj |->
     IF k \in DOMAIN lObj THEN lObj[k] ELSE rObj[k]]

(***************************************************************************)
(* The merge of syncWithFirebase and of syncWithGoogleSheets.              *)
(***************************************************************************)
\* A mutation: the spread order swapped, { ...lJob, ...rJob }.
OverlayRemoteWins(rJob, lJob) ==
  [intakeImage |-> IF Truthy(Val(lJob, "intakeImage"))
                   THEN lJob["intakeImage"] ELSE Val(rJob, "intakeImage"),
   damageImages |-> IF NonEmptyArr(Val(lJob, "damageImages"))
                    THEN lJob["damageImages"] ELSE Val(rJob, "damageImages")]
  @@ Spread(lJob, rJob)

\* A mutation: damageImages is left to the spread, the local value as it is.
OverlayDamageFromLocal(rJob, lJob) ==
  [intakeImage |-> IF Truthy(Val(lJob, "intakeImage"))
                   THEN lJob["intakeImage"] ELSE Val(rJob, "intakeImage"),
   damageImages |-> IF "damageImages" \in DOMAIN lJob
                    THEN lJob["damageImages"] ELSE Val(rJob, "damageImages")]
  @@ Spread(rJob, lJob)

\* A mutation: intakeImage is left to the spread, the local value as it is.
OverlayIntakeFromLocal(rJob, lJob) ==
  [intakeImage |-> IF "intakeImage" \in DOMAIN lJob
                   THEN lJob["intakeImage"] ELSE Val(rJob, "intakeImage"),
   damageImages |-> IF NonEmptyArr(Val(lJob, "damageImages"))
                    THEN lJob["damageImages"] ELSE Val(rJob, "damageImages")]
  @@ Spread(rJob, lJob)

\* { ...rJob, ...lJob, intakeImage: l || r, damageImages: l nonempty ? l : r }
Overlay(rJob, lJob) ==
  [intakeImage |-> IF Truthy(Val(lJob, "intakeImage"))
                   THEN lJob["intakeImage"] ELSE Val(rJob, "intakeImage"),
   damageImages |-> IF NonEmptyArr(Val(lJob, "damageImages"))
                    THEN lJob["damageImages"] ELSE Val(rJob, "damageImages")]
  @@ Spread(rJob, lJob)

\* A mutation: a list that takes every entry, not a map keyed by id.
MapSetAppend(m, key, job) == Append(m, job)

\* A JS Map keyed by job id is the sequence of its values in insertion order.
MapHas(m, key) == \E i \in 1..Len(m) : m[i]["id"] = key
MapGet(m, key) == m[CHOOSE i \in 1..Len(m) : m[i]["id"] = key]
MapSet(m, key, job) ==
  IF MapHas(m, key)
  THEN [i \in 1..Len(m) |-> IF m[i]["id"] = key THEN job ELSE m[i]]
  ELSE Append(m, job)

\* The forEach loops below walk their list in order, the first half and then
\* the second half, so that the evaluation of a list of several hundred jobs
\* stays shallow; the test on first makes TLC finish the first half before
\* it starts the second.

RECURSIVE SeedRemote(_, _)
\* remoteJobs.forEach(rJob => jobMap.set(rJob.id, rJob))
SeedRemote(m, rs) ==
  IF rs = <<>> THEN m
  ELSE IF Len(rs) = 1 THEN MapSet(m, rs[1]["id"], rs[1])
  ELSE LET h == Len(rs) \div 2
           first == SeedRemote(m, SubSeq(rs, 1, h))
       IN IF first = first
          THEN SeedRemote(first, SubSeq(rs, h + 1, Len(rs)))
          ELSE first

RECURSIVE SeedSheet(_, _)
\* sheetJobs.forEach(job => { if (job.id) jobMap.set(job.id, job) })
SeedSheet(m, rs) ==
  IF rs = <<>> THEN m
  ELSE IF Len(rs) = 1 THEN (IF rs[1]["id"] # "" THEN MapSet(m, rs[1]["id"], rs[1]) ELSE m)
  ELSE LET h == Len(rs) \div 2
           first == SeedSheet(m, SubSeq(rs, 1, h))
       IN IF first = first
          THEN SeedSheet(first, SubSeq(rs, h + 1, Len(rs)))
          ELSE first

\* A mutation: a local job whose id the map holds is skipped, not overlaid.
OverlayOneSkip(m, lJob) ==
  IF MapHas(m, lJob["id"]) THEN m ELSE MapSet(m, lJob["id"], lJob)

\* A mutation: a local job the map does not hold is inserted without the keys
\* whose value is undefined.
OverlayOneInsertDefined(m, lJob) ==
  IF MapHas(m, lJob["id"])
  THEN MapSet(m, lJob["id"], Overlay(MapGet(m, lJob["id"]), lJob))
  ELSE MapSet(m, lJob["id"],
              [k \in {x \in DOMAIN lJob : x \in ImageKeys => lJob[x] # Undef(x)}
                 |-> lJob[k]])

\* the body of localJobs.forEach(lJob => ...) of syncWithFirebase
OverlayOne(m, lJob) ==
  IF MapHas(m, lJob["id"])
  THEN MapSet(m, lJob["id"], Overlay(MapGet(m, lJob["id"]), lJob))
  ELSE MapSet(m, lJob["id"], lJob)

RECURSIVE OverlayLocal(_, _)
\* localJobs.forEach(lJob => ...) of syncWithFirebase
OverlayLocal(m, ls) ==
  IF ls = <<>> THEN m
  ELSE IF Len(ls) = 1 THEN OverlayOne(m, ls[1])
  ELSE LET h == Len(ls) \div 2
           first == OverlayLocal(m, SubSeq(ls, 1, h))
       IN IF first = first
          THEN OverlayLocal(first, SubSeq(ls, h + 1, Len(ls)))
          ELSE first

\* the body of localJobs.forEach(localJob => ...) of syncWithGoogleSheets
OverlayOneSheet(m, localJob) ==
  IF localJob["id"] # "" THEN OverlayOne(m, localJob) ELSE m

RECURSIVE OverlayLocalSheet(_, _)
\* localJobs.forEach(localJob => ...) of syncWithGoogleSheets
OverlayLocalSheet(m, ls) ==
  IF ls = <<>> THEN m
  ELSE IF Len(ls) = 1 THEN OverlayOneSheet(m, ls[1])
  ELSE LET h == Len(ls) \div 2
           first == OverlayLocalSheet(m, SubSeq(ls, 1, h))
       IN IF first = first
          THEN OverlayLocalSheet(first, SubSeq(ls, h + 1, Len(ls)))
          ELSE first

\* (a, b) => b.createdAt - a.createdAt, and the sign Array.prototype.sort
\* reads from it: a NaN result counts as 0
Compare(a, b) ==
  IF a["createdAt"] = NaN \/ b["createdAt"] = NaN THEN 0
  ELSE b["createdAt"] - a["createdAt"]

\* The stable sort: element i stands after the elements that compare
\* strictly before it and after the earlier elements that compare equal to it.
StableSort(s) ==
  LET n == Len(s)
      before == [i \in 1..n |->
                   Cardinality({j \in 1..n :
                      \/ Compare(s[j], s[i]) < 0
                      \/ Compare(s[j], s[i]) = 0 /\ j < i})] \o <<>>
      at == [i \in 1..n |-> CHOOSE k \in 1..n : before[k] = i - 1] \o <<>>
  IN [i \in 1..n |-> s[at[i]]]

Perms(s) ==
  {[i \in 1..Len(s) |-> s[p[i]]] :
     p \in {q \in [1..Len(s) -> 1..Len(s)] : Range(q) = 1..Len(s)}}

\* A mutation: the values are returned in Map order, unsorted.
SortOutcomesUnsorted(s) == {s}

\* Array.from(jobMap.values()).sort(...): the lists the sort may return.  With
\* every createdAt a number the comparator is consistent and the sort is the
\* stable descending sort; with a NaN among them the comparator is not a
\* consistent order and the result is implementation-defined: a permutation.
SortOutcomes(s) ==
  IF \E i \in 1..Len(s) : s[i]["createdAt"] = NaN
  THEN Perms(s)
  ELSE {StableSort(s)}

\* A mutation: the map is not seeded from the remote jobs.
MergeFirebaseNoSeed(local, remoteJobs) == OverlayLocal(<<>>, local)

\* Map order of the merge of syncWithFirebase, before the sort
MergeFirebase(local, remoteJobs) == OverlayLocal(SeedRemote(<<>>, remoteJobs), local)

\* A mutation: the map is not seeded from the sheet jobs.
MergeSheetsNoSeed(local, sheetJobs) == OverlayLocalSheet(<<>>, local)

\* Map order of the merge of syncWithGoogleSheets, before the sort
MergeSheets(local, sheetJobs) == OverlayLocalSheet(SeedSheet(<<>>, sheetJobs), local)

(***************************************************************************)
(* Image normaliser and the payload written to Firestore.                  *)
(***************************************************************************)
\* images whose decoding fails (img.onerror)
CorruptImages == {"L2"}

\* maxWidth: number = 800; compressImage is only called with the default
MaxWidth == 800

\* pictures of known size: img.width and img.height once the data URL of the
\* base64 string has been decoded
PicWidths == {1, 400, 800, 801, 1200, 1600, 2400}
PicHeights == {1, 3, 600, 601, 1000}
PicName(w, h) == "pic" \o ToString(w) \o "x" \o ToString(h)
PictureSize ==
  LET sizes == [width : PicWidths, height : PicHeights]
  IN [n \in {PicName(r.width, r.height) : r \in sizes} |->
        CHOOSE r \in sizes : PicName(r.width, r.height) = n]
Pictures == DOMAIN PictureSize

\* the photos of the model as the camera or the file picker delivers them
Photos == Pictures \cup {"L0", "L1", "R0", "R1", "R2", "R3"}

\* the base64 string of the JPEG that canvas.toDataURL makes of a picture
Jpeg(base64) == "jpeg(" \o base64 \o ")"

\* Math.round(x / y) for x >= 0 and y > 0: a half is rounded up
RoundDiv(x, y) == (2 * x + y) \div (2 * y)

\* A mutation: the canvas always gets the maximum width.
CanvasSizeAlwaysScaled(img) ==
  [width |-> MaxWidth, height |-> RoundDiv(img.height * MaxWidth, img.width)]

\* canvas.width and canvas.height as img.onload computes them
CanvasSize(img) ==
  IF img.width > MaxWidth
  THEN [width |-> MaxWidth, height |-> RoundDiv(img.height * MaxWidth, img.width)]
  ELSE [width |-> img.width, height |-> img.height]

\* every other image of the model is 640 x 480; a JPEG that toDataURL made
\* has the size of the canvas it was made of
ImgSize(base64) ==
  IF base64 \in Pictures THEN PictureSize[base64]
  ELSE IF \E p \in Pictures : base64 = Jpeg(p)
  THEN CanvasSize(PictureSize[CHOOSE p \in Pictures : base64 = Jpeg(p)])
  ELSE [width |-> 640, height |-> 480]

\* canvas.toDataURL('image/jpeg', quality).split(',')[1]: the JPEG of the
\* drawn picture; a canvas without pixels gives 'data:,', whose second part
\* is the empty string. Encoding a picture that is itself a JPEG of the
\* canvas gives the same string again for some pictures (one of a single
\* colour) and a new string for others (one with detail, which loses a
\* little more): same is the set of the JPEGs that come back as they are
ToDataURL(base64, size, same) ==
  IF size.width = 0 \/ size.height = 0 THEN ""
  ELSE IF base64 \in same THEN base64
  ELSE Jpeg(base64)

NoSize == [width |-> 0, height |-> 0]

\* img.onload: the promise resolves with the JPEG of the canvas, or with
\* base64 when the canvas has no 2d context
OnLoad(base64, cv) ==
  IF ~cv.ctx
  THEN [state |-> "resolved", value |-> base64, size |-> ImgSize(base64)]
  ELSE [state |-> "resolved",
        value |-> ToDataURL(base64, CanvasSize(ImgSize(base64)), cv.same),
        size |-> CanvasSize(ImgSize(base64))]

\* A mutation: a picture that does not decode rejects the promise.
OnErrorRejects(base64) ==
  [state |-> "rejected", value |-> base64, size |-> NoSize]

\* img.onerror: the promise resolves with base64
OnError(base64) ==
  [state |-> "resolved", value |-> base64, size |-> NoSize]

\* the promise of compressImage(base64) once the load or the error event of
\* the image has fired
Settle(base64, cv) ==
  IF base64 \in CorruptImages THEN OnError(base64) ELSE OnLoad(base64, cv)

\* compressImage(base64) in a browser whose canvas gives a 2d context
\* (cv.ctx) or none, cv.same being the JPEGs it encodes to themselves: the
\* value the promise resolves with
CompressImage(base64, cv) == Settle(base64, cv).value

\* no JPEG of the canvas has been drawn again yet
NoneDrawn == [same |-> {}, changed |-> {}]

\* the canvas of this browser as known so far
Canvas == [ctx |-> canvas, same |-> steady.same]

\* the pictures among imgs that are JPEGs of the canvas and are drawn again
\* for the first time: what toDataURL makes of them is not known yet
Redrawn(imgs) ==
  IF canvas
  THEN {x \in imgs : x \notin Photos \cup CorruptImages \cup {"", UndefStr}
                      /\ x \notin steady.same \cup steady.changed}
  ELSE {}

\* toDataURL encodes the pictures of imgs: those of f, drawn again for the
\* first time, come back as the same string, the others of them changed
Encode(imgs, f) ==
  /\ f \subseteq Redrawn(imgs)
  /\ steady' = [same |-> steady.same \cup f,
                changed |-> steady.changed \cup (Redrawn(imgs) \ f)]

\* the canvas once the pictures of f have come back as the same string
CanvasWith(f) == [ctx |-> canvas, same |-> steady.same \cup f]

\* the intake image, or the damage images, prepareJobForCloud is waiting for
IntakeOf(p) == {p.jobToSave["intakeImage"]}
DamagesOf(p) == Range(p.jobToSave["damageImages"])

\* prepareJobForCloud up to its first await: jobToSave is a copy of the job;
\* the function waits for compressImage of the intake image, or for
\* Promise.all of the damage images, or has nothing to wait for
PrepStart(job) ==
  [jobToSave |-> job,
   pc |-> IF Truthy(Val(job, "intakeImage")) THEN "intake"
          ELSE IF NonEmptyArr(Val(job, "damageImages")) THEN "damage"
          ELSE "prepared"]

\* await compressImage(jobToSave.intakeImage) has settled: a rejection is
\* caught and leaves the image as it was
PrepIntake(p, cv) ==
  LET result == Settle(p.jobToSave["intakeImage"], cv)
      js == IF result.state = "resolved"
            THEN [p.jobToSave EXCEPT !["intakeImage"] = result.value]
            ELSE p.jobToSave
  IN [jobToSave |-> js,
      pc |-> IF NonEmptyArr(Val(js, "damageImages")) THEN "damage" ELSE "prepared"]

\* await Promise.all(jobToSave.damageImages.map(img => compressImage(img)))
\* has settled: one rejection is caught and leaves the whole list as it was
PrepDamage(p, cv) ==
  LET imgs == p.jobToSave["damageImages"]
  IN [jobToSave |->
        IF \A i \in 1..Len(imgs) : Settle(imgs[i], cv).state = "resolved"
        THEN [p.jobToSave EXCEPT !["damageImages"] =
                [i \in 1..Len(imgs) |-> CompressImage(imgs[i], cv)]]
        ELSE p.jobToSave,
      pc |-> "prepared"]

\* prepareJobForCloud(job) from its call to the value of its promise
PrepareJobForCloud(job, cv) ==
  LET p0 == PrepStart(job)
      p1 == IF p0.pc = "intake" THEN PrepIntake(p0, cv) ELSE p0
      p2 == IF p1.pc = "damage" THEN PrepDamage(p1, cv) ELSE p1
  IN p2.jobToSave

\* JSON.parse(JSON.stringify(obj)): the keys whose value is undefined are gone
CleanData(obj) ==
  [k \in {x \in DOMAIN obj : x \in ImageKeys => obj[x] # Undef(x)} |-> obj[k]]

\* Firestore set(docRef, data, { merge: true }): the fields of data replace
\* those of the stored document, a nested map (carDetails) field by field;
\* the fields data does not name are kept
SetMerge(docs, data) ==
  LET key == data["id"]
      old == IF key \in DOMAIN docs THEN docs[key] ELSE <<>>
      new == [k \in DOMAIN old \cup DOMAIN data |->
                IF k \notin DOMAIN data THEN old[k]
                ELSE IF k = "carDetails" /\ k \in DOMAIN old
                     THEN Spread(old[k], data[k])
                     ELSE data[k]]
  IN [d \in DOMAIN docs \cup {key} |-> IF d = key THEN new ELSE docs[d]]

RECURSIVE CommitBatch(_, _)
\* batch.commit(): every set of the batch applied, in order
CommitBatch(docs, payload) ==
  IF payload = <<>> THEN docs
  ELSE IF Len(payload) = 1 THEN SetMerge(docs, payload[1])
  ELSE LET h == Len(payload) \div 2
           first == CommitBatch(docs, SubSeq(payload, 1, h))
       IN IF first = first
          THEN CommitBatch(first, SubSeq(payload, h + 1, Len(payload)))
          ELSE first

\* Limit: Firestore batch is 500 ops, capped at 450
BatchCap == 450

Min(a, b) == IF a < b THEN a ELSE b

\* A mutation: every merged job goes into the batch.
JobsToSaveAll(mergedJobs) == mergedJobs

\* mergedJobs.slice(0, 450)
JobsToSave(mergedJobs) == SubSeq(mergedJobs, 1, Min(Len(mergedJobs), BatchCap))

\* the documents the batch sets, in order
BatchPayload(mergedJobs, cv) ==
  [i \in 1..Len(JobsToSave(mergedJobs)) |->
     CleanData(PrepareJobForCloud(JobsToSave(mergedJobs)[i], cv))]

\* A mutation: prepareJobForCloud writes the compressed images into the job
\* it was given.
JobAfterPrepareInPlace(job) == PrepareJobForCloud(job, Canvas)

\* the job object passed to prepareJobForCloud once the call has returned:
\* the function assigns to jobToSave, a spread copy, and gives it a new
\* damageImages array, so the object it was given is as before
JobAfterPrepare(job) == job

\* the objects of mergedJobs after the loop over jobsToSave
MergedAfterBatch(mergedJobs) ==
  [i \in 1..Len(mergedJobs) |->
     IF i <= Len(JobsToSave(mergedJobs))
     THEN JobAfterPrepare(mergedJobs[i]) ELSE mergedJobs[i]]

(***************************************************************************)
(* The jobs, documents and settings the model draws its inputs from.       *)
(***************************************************************************)
Ids == {"a", "b", "c"}
\* the ids uuidv4() hands to the jobs the intake form creates
NewIds == <<"n1", "n2", "n3", "n4">>
\* getDocs returns the documents ordered by document id
\* the ids of a job list longer than the batch cap, "j001", "j002", ...
MaxOver == 2      \* jobs of the longest list beyond the batch cap

Pad3(i) ==
  IF i < 10 THEN "00" \o ToString(i)
  ELSE IF i < 100 THEN "0" \o ToString(i) ELSE ToString(i)

BulkId(i) == "j" \o Pad3(i)

BulkIds == [i \in 1..(BatchCap + MaxOver) |-> BulkId(i)]

\* the document ids in the order getDocs returns them: by id
IdOrder == <<"a", "b", "c">> \o BulkIds \o NewIds

CarL == [plate |-> "1234ABC", make |-> "Seat", model |-> "Ibiza"]
CarR == [plate |-> "1234ABC", make |-> "Seat", model |-> "Leon", color |-> "Rojo"]

\* a part name is a sequence of characters: the sheet codec joins and splits
PartP == <<"P">>
PartQ == <<"Q">>

TextL(id, t) ==
  [id |-> id, createdAt |-> t, status |-> "En Proceso",
   identifiedParts |-> <<PartP>>, manualNotes |-> "x", repairType |-> "CHAPA"]
TextR(id, t) ==
  [id |-> id, createdAt |-> t, status |-> "Ingreso",
   identifiedParts |-> <<PartQ, PartP>>, manualNotes |-> "y", repairType |-> "AMBOS"]

\* a job of the local list with its car, its intake photo and two damage photos
LocalFull(id, t) ==
  [carDetails |-> CarL, intakeImage |-> "L0", damageImages |-> <<"L1", "L2">>]
  @@ TextL(id, t)
\* a job as createJob builds it for a manual entry: no photo, no damage image
LocalFresh(id, t) ==
  [carDetails |-> CarL, intakeImage |-> UndefStr, damageImages |-> <<>>]
  @@ TextL(id, t)
\* a job that owns none of its optional keys
LocalBare(id, t) == TextL(id, t)

LocalJobs ==
  {LocalFull("a", 1), LocalFull("b", 2), LocalFull("c", 2),
   LocalFresh("a", 2), LocalBare("a", 2), LocalFull("", 1)}

RemoteFull(id, t) ==
  [carDetails |-> CarR, intakeImage |-> "R0", damageImages |-> <<"R1", "R2", "R3">>]
  @@ TextR(id, t)
RemoteBare(id, t) == [damageImages |-> <<>>] @@ TextR(id, t)

\* a document as an earlier sync wrote it: its images are JPEGs of the canvas
RemoteSynced(id, t) ==
  [RemoteFull(id, t) EXCEPT !["intakeImage"] = Jpeg("R0"),
                            !["damageImages"] = <<Jpeg("R1")>>]

RemoteDocs ==
  {RemoteFull(i, t) : i \in Ids, t \in {1, 3}}
  \cup {RemoteBare("a", 1), RemoteSynced("c", 3)}

\* the collections: each document is stored under its own id
RemoteStores ==
  {docs \in UNION {[D -> RemoteDocs] : D \in SUBSET Ids} :
     \A d \in DOMAIN docs : docs[d]["id"] = d}

FbComplete == [apiKey |-> "k", authDomain |-> "d", projectId |-> "p", appId |-> "1:app"]
FirebaseConfigs ==
  {FbComplete,
   [FbComplete EXCEPT !.apiKey = ""],
   [FbComplete EXCEPT !.authDomain = ""],
   [FbComplete EXCEPT !.projectId = ""],
   [FbComplete EXCEPT !.appId = ""]}
NoSettings == <<>>
FirebaseSettings ==
  {NoSettings} \cup {[firebaseConfig |-> c] : c \in FirebaseConfigs}
SheetSettings ==
  {[googleSheetId |-> i, googleAccessToken |-> k] : i \in {"", "sheet"}, k \in {"", "tok"}}
  \cup {NoSettings}

(***************************************************************************)
(* syncWithFirebase, one action per await that waits for an event: the     *)
(* answer to getDocs, the load or error event of an intake image, the      *)
(* events of the damage images of one job (Promise.all), the answer to     *)
(* batch.commit.  The await of prepareJobForCloud for a job without images *)
(* is resumed by a microtask, before any other callback can run, and is    *)
(* part of the step that reaches it.                                       *)
(***************************************************************************)
NoCall ==
  [fn |-> "none", pc |-> "idle", settings |-> NoSettings, local |-> <<>>,
   remoteJobs |-> <<>>, mergedJobs |-> <<>>, payload |-> <<>>,
   merged |-> FALSE, readFailed |-> FALSE, outcome |-> "none", error |-> "",
   returned |-> <<>>, ops |-> {}, n |-> 0, at |-> 0, jobToSave |-> <<>>]

\* snapshot.forEach(doc => remoteJobs.push(doc.data()))
Snapshot(docs) ==
  LET present == SelectSeq(IdOrder, LAMBDA d : d \in DOMAIN docs)
  IN [i \in 1..Len(present) |-> docs[present[i]]]

\* A mutation: the guard that also rejects an absent app id, domain or project.
FirebaseConfigOkAllFields(s) ==
  /\ "firebaseConfig" \in DOMAIN s
  /\ \A f \in {"apiKey", "authDomain", "projectId", "appId"} :
       s["firebaseConfig"][f] # ""

\* !( !settings.firebaseConfig || !settings.firebaseConfig.apiKey )
FirebaseConfigOk(s) ==
  /\ "firebaseConfig" \in DOMAIN s
  /\ s["firebaseConfig"]["apiKey"] # ""

\* syncWithFirebase up to its first await: the configuration guard
FbBegin(local, s) ==
  IF FirebaseConfigOk(s)
  THEN [NoCall EXCEPT !.fn = "firebase", !.pc = "getDocs",
                      !.settings = s, !.local = local]
  ELSE [NoCall EXCEPT !.fn = "firebase", !.pc = "done",
                      !.settings = s, !.local = local,
                      !.outcome = "ConfigError",
                      !.error = "Configuración de Firebase incompleta."]

\* a job at which the loop over jobsToSave leaves the event loop no choice
\* but to stop or wait: doc(database, 'jobs', '') throws for an empty id,
\* and prepareJobForCloud waits for the load or error event of an image
StopsLoop(job) ==
  \/ job["id"] = ""
  \/ PrepStart(job).pc # "prepared"

\* the first such job from index i on, Len(js) + 1 when there is none
NextStop(js, i) ==
  IF \E j \in i..Len(js) : StopsLoop(js[j])
  THEN CHOOSE j \in i..Len(js) :
         StopsLoop(js[j]) /\ \A k \in i..(j - 1) : ~StopsLoop(js[k])
  ELSE Len(js) + 1

\* the loop over jobsToSave from its i-th job on, as far as it runs without
\* waiting for an image: a job without images is cleaned and set in the
\* batch at once (its prepareJobForCloud settles in a microtask); the loop
\* then throws at an empty id, waits for the images of the next job, calls
\* batch.commit(), or returns mergedJobs when the batch is empty
LoopFrom(c, i) ==
  LET js == JobsToSave(c.mergedJobs)
      j == NextStop(js, i)
      pay == c.payload \o [k \in 1..(j - i) |-> CleanData(js[i + k - 1])]
  IN IF j > Len(js)
     THEN IF Len(js) > 0
          THEN [c EXCEPT !.pc = "commit", !.payload = pay, !.at = 0,
                         !.jobToSave = <<>>]
          ELSE [c EXCEPT !.pc = "done", !.outcome = "ok", !.at = 0,
                         !.returned = c.mergedJobs]
     ELSE IF js[j]["id"] = ""
     THEN [c EXCEPT !.pc = "done", !.outcome = "ArgumentError",
                    !.error = "Invalid document reference",
                    !.payload = pay, !.at = j, !.jobToSave = <<>>]
     ELSE [c EXCEPT !.pc = PrepStart(js[j]).pc, !.payload = pay, !.at = j,
                    !.jobToSave = PrepStart(js[j]).jobToSave]

\* getDocs resolved with docs: the merge (sorted as merged), then the loop
FbFetched(c, docs, merged) ==
  LoopFrom([c EXCEPT !.remoteJobs = Snapshot(docs),
                     !.mergedJobs = merged, !.merged = TRUE,
                     !.ops = @ \cup {"getDocs"}], 1)

\* an await of prepareJobForCloud has settled with p: the function waits for
\* the damage images next, or has returned jobToSave, which is cleaned and
\* set in the batch, and the loop goes on
FbPrepared(c, p) ==
  IF p.pc = "prepared"
  THEN LoopFrom([c EXCEPT !.payload = @ \o <<CleanData(p.jobToSave)>>,
                          !.jobToSave = <<>>], c.at + 1)
  ELSE [c EXCEPT !.pc = p.pc, !.jobToSave = p.jobToSave]

\* the prepareJobForCloud call the loop is waiting for
PrepOf(c) == [jobToSave |-> c.jobToSave, pc |-> c.pc]

\* getDocs rejected
FbFetchFailed(c) ==
  [c EXCEPT !.pc = "done", !.outcome = "TransportError",
            !.error = "FirebaseError", !.ops = @ \cup {"getDocs"}]

\* batch.commit() resolved: return mergedJobs
FbCommitted(c) ==
  [c EXCEPT !.pc = "done", !.outcome = "ok",
            !.returned = MergedAfterBatch(c.mergedJobs),
            !.ops = @ \cup {"commit"}]

\* the objects of the local list once the loop over jobsToSave has run: the
\* Map holds the local job itself, not a copy, when no remote job and no
\* other local job has its id (jobMap.set(lJob.id, lJob)), and the loop hands
\* that object to prepareJobForCloud when it is among jobsToSave
LocalAfterBatch(c) ==
  [k \in 1..Len(c.local) |->
     IF /\ \A i \in 1..Len(c.remoteJobs) : c.remoteJobs[i]["id"] # c.local[k]["id"]
        /\ \A j \in 1..Len(c.local) : c.local[j]["id"] = c.local[k]["id"] => j = k
        /\ \E i \in 1..Len(JobsToSave(c.mergedJobs)) :
              c.mergedJobs[i]["id"] = c.local[k]["id"]
     THEN JobAfterPrepare(c.local[k]) ELSE c.local[k]]

\* batch.commit() rejected
FbCommitFailed(c) ==
  [c EXCEPT !.pc = "done", !.outcome = "TransportError",
            !.error = "FirebaseError", !.ops = @ \cup {"commit"}]

\* The caller of Spec takes the returned list as its new job list.
Adopt(c) == IF c.outcome = "ok" THEN c.returned ELSE localJobs

FbStart(s) ==
  /\ backend = "firebase"
  /\ call.pc \in {"idle", "done"}
  /\ call.n < MaxSyncs
  /\ call' = [FbBegin(localJobs, s) EXCEPT !.n = call.n + 1]
  /\ UNCHANGED <<canvas, steady, backend, localJobs, fbDocs, sheet>>
  /\ UNCHANGED appVars

FbGetDocsOk ==
  /\ call.fn = "firebase" /\ call.pc = "getDocs"
  /\ \E merged \in SortOutcomes(MergeFirebase(call.local, Snapshot(fbDocs))) :
       /\ call' = FbFetched(call, fbDocs, merged)
       /\ localJobs' = Adopt(call')
  /\ UNCHANGED <<canvas, steady, backend, fbDocs, sheet>>
  /\ UNCHANGED appVars

FbGetDocsFail ==
  /\ call.fn = "firebase" /\ call.pc = "getDocs"
  /\ call' = FbFetchFailed(call)
  /\ UNCHANGED <<canvas, steady, backend, localJobs, fbDocs, sheet>>
  /\ UNCHANGED appVars

\* the intake image of the job being prepared has loaded or failed to
FbIntakeSettled ==
  /\ call.fn = "firebase" /\ call.pc = "intake"
  /\ \E f \in SUBSET Redrawn(IntakeOf(PrepOf(call))) :
       /\ Encode(IntakeOf(PrepOf(call)), f)
       /\ call' = FbPrepared(call, PrepIntake(PrepOf(call), CanvasWith(f)))
  /\ localJobs' = Adopt(call')
  /\ UNCHANGED <<canvas, backend, fbDocs, sheet>>
  /\ UNCHANGED appVars

\* every damage image of the job being prepared has loaded or failed to
FbDamageSettled ==
  /\ call.fn = "firebase" /\ call.pc = "damage"
  /\ \E f \in SUBSET Redrawn(DamagesOf(PrepOf(call))) :
       /\ Encode(DamagesOf(PrepOf(call)), f)
       /\ call' = FbPrepared(call, PrepDamage(PrepOf(call), CanvasWith(f)))
  /\ localJobs' = Adopt(call')
  /\ UNCHANGED <<canvas, backend, fbDocs, sheet>>
  /\ UNCHANGED appVars

\* batch.commit() applies every set of the batch, or none
FbCommitOk ==
  /\ call.fn = "firebase" /\ call.pc = "commit"
  /\ fbDocs' = CommitBatch(fbDocs, call.payload)
  /\ call' = FbCommitted(call)
  /\ localJobs' = Adopt(call')
  /\ UNCHANGED <<canvas, steady, backend, sheet>>
  /\ UNCHANGED appVars

FbCommitFail ==
  /\ call.fn = "firebase" /\ call.pc = "commit"
  /\ call' = FbCommitFailed(call)
  /\ UNCHANGED <<canvas, steady, backend, localJobs, fbDocs, sheet>>
  /\ UNCHANGED appVars

(***************************************************************************)
(* Row codec of the sheet backend.  A row is the sequence of its cells; a  *)
(* cell the API leaves out is beyond the length of the row.  The cells are *)
(* strings, except the parts cell, which is a sequence of characters so    *)
(* that join and split act on it.                                          *)
(***************************************************************************)
SHEET_NAME == "TallerProData"

Headers == <<"ID", "Fecha", "Estado", "Matrícula", "Marca", "Modelo",
             "Tipo Reparación", "Piezas", "Observaciones",
             "Imagen Ingreso (JSON)", "Imágenes Daños (JSON)">>

Sep == <<",", " ">>

RECURSIVE JoinComma(_)
\* A mutation: the parts are joined with a comma, without the space.
JoinComma(parts) ==
  IF parts = <<>> THEN <<>>
  ELSE IF Len(parts) = 1 THEN parts[1]
       ELSE parts[1] \o <<",">> \o JoinComma(Tail(parts))

RECURSIVE Join(_)
\* parts.join(', ')
Join(parts) ==
  IF parts = <<>> THEN <<>>
  ELSE IF Len(parts) = 1 THEN parts[1]
       ELSE parts[1] \o Sep \o Join(Tail(parts))

RECURSIVE SplitFrom(_, _)
\* str.split(', '): cur is the piece read so far
SplitFrom(str, cur) ==
  IF str = <<>> THEN <<cur>>
  ELSE IF Len(str) >= 2 /\ SubSeq(str, 1, 2) = Sep
       THEN <<cur>> \o SplitFrom(SubSeq(str, 3, Len(str)), <<>>)
       ELSE SplitFrom(Tail(str), Append(cur, Head(str)))

Split(str) == SplitFrom(str, <<>>)

\* new Date(dateStr).getTime(): NaN for a text that is no date
DateParse(dateStr) ==
  IF \E t \in Times : IsoOf[t] = dateStr
  THEN CHOOSE t \in Times : IsoOf[t] = dateStr
  ELSE NaN

\* new Date(job.createdAt).toISOString() throws a RangeError on an invalid date
ToISOStringThrows(t) == t \notin Times

\* job.carDetails?.plate || ''
CarField(job, f) ==
  IF "carDetails" \in DOMAIN job /\ f \in DOMAIN job["carDetails"]
  THEN job["carDetails"][f] ELSE ""

\* the JSON text of a list of images, for the lists of the model
JsonOf(images) ==
  IF images = <<"R0">> THEN "[\"R0\"]"
  ELSE IF images = <<"R1", "R2", "R3">> THEN "[\"R1\",\"R2\",\"R3\"]"
  ELSE IF images = <<>> THEN "[]" ELSE "[...]"

\* A mutation: the date cell is the date of the first job of the clock.
JobToRowFixedDate(job) ==
  << job["id"], IsoOf[1], job["status"], CarField(job, "plate"),
     CarField(job, "make"), CarField(job, "model"), job["repairType"],
     Join(IF "identifiedParts" \in DOMAIN job THEN job["identifiedParts"] ELSE <<>>),
     IF "manualNotes" \in DOMAIN job THEN job["manualNotes"] ELSE "",
     "[]", "[]" >>

\* jobToRow, for a job whose createdAt is a valid date
JobToRow(job) ==
  << job["id"],
     IsoOf[job["createdAt"]],
     job["status"],
     CarField(job, "plate"),
     CarField(job, "make"),
     CarField(job, "model"),
     job["repairType"],
     Join(IF "identifiedParts" \in DOMAIN job THEN job["identifiedParts"] ELSE <<>>),
     IF "manualNotes" \in DOMAIN job THEN job["manualNotes"] ELSE "",
     "[]",
     "[]" >>

\* row[k - 1] || dflt, for a string cell
Cell(row, k, dflt) == IF k <= Len(row) /\ row[k] # "" THEN row[k] ELSE dflt

\* a cell that holds a number, not a string
NumberCell == <<"<number>">>

\* row[7] || '', the parts cell
PartsCell(row) == IF 8 <= Len(row) THEN row[8] ELSE <<>>

\* partsStr.split is not a function: a TypeError, outside the try block
RowToJobThrows(row) == PartsCell(row) = NumberCell

\* JSON.parse of an image cell: whether it throws, whether the value is an
\* array, and the array
JsonParse(text) ==
  CASE text = "[]" -> [throws |-> FALSE, isArray |-> TRUE, arr |-> <<>>]
    [] text = "[\"R0\"]" -> [throws |-> FALSE, isArray |-> TRUE, arr |-> <<"R0">>]
    [] text = "[\"R1\",\"R2\",\"R3\"]" ->
         [throws |-> FALSE, isArray |-> TRUE, arr |-> <<"R1", "R2", "R3">>]
    [] text = "{}" -> [throws |-> FALSE, isArray |-> FALSE, arr |-> <<>>]
    [] OTHER -> [throws |-> TRUE, isArray |-> FALSE, arr |-> <<>>]

\* rowToJob; now is new Date() at the time of the call
RowToJob(row, now) ==
  LET dateStr == Cell(row, 2, IsoOf[now])
      partsStr == PartsCell(row)
      parsedIntake == JsonParse(Cell(row, 10, "[]"))
      parsedDamage == JsonParse(Cell(row, 11, "[]"))
  IN [id |-> Cell(row, 1, ""),
      createdAt |-> DateParse(dateStr),
      status |-> Cell(row, 3, "Ingreso"),
      carDetails |-> [plate |-> Cell(row, 4, ""), make |-> Cell(row, 5, ""),
                      model |-> Cell(row, 6, "")],
      repairType |-> Cell(row, 7, "AMBOS"),
      identifiedParts |-> IF partsStr # <<>> THEN Split(partsStr) ELSE <<>>,
      manualNotes |-> Cell(row, 9, ""),
      intakeImage |-> IF ~parsedIntake.throws /\ parsedIntake.isArray
                         /\ Len(parsedIntake.arr) > 0
                      THEN parsedIntake.arr[1] ELSE UndefStr,
      damageImages |-> IF ~parsedIntake.throws /\ ~parsedDamage.throws
                          /\ parsedDamage.isArray
                       THEN parsedDamage.arr ELSE <<>>]

MaxTicked == 6    \* rows of a sheet within which the clock is followed ticking

\* the readings of the clock a map of rowToJob over rows can get, one for
\* each row: only a row without a date cell reads it, the clock does not
\* run backwards, and it may pass from one value to a later one between
\* two rows (followed for the first MaxTicked rows; behind them every row
\* reads the later value)
Clocks(rows) ==
  LET readers == {i \in 1..Len(rows) : i <= MaxTicked /\ Cell(rows[i], 2, "") = ""}
  IN {[i \in 1..Len(rows) |-> IF i <= k THEN t[1] ELSE t[2]] :
        k \in {0} \cup readers,
        t \in {p \in NowTimes \X NowTimes : p[1] <= p[2]}}

\* data.values.map(row => rowToJob(row)), nows[i] being new Date() at the
\* call for the i-th row
DecodeRows(rows, nows) == [i \in 1..Len(rows) |-> RowToJob(rows[i], nows[i])]

BadDate == "sin fecha"

SheetRow(id, date, intakeJson, damageJson) ==
  <<id, date, "Ingreso", "1234ABC", "Seat", "Leon", "AMBOS",
    Join(<<PartQ, PartP>>), "y", intakeJson, damageJson>>

RowUniverse ==
  {SheetRow("a", IsoOf[1], "[]", "[]"),
   SheetRow("b", IsoOf[3], "[]", "[]"),
   SheetRow("a", BadDate, "[]", "[]"),
   SheetRow("", IsoOf[1], "[]", "[]"),
   SheetRow("a", IsoOf[3], "[\"R0\"]", "[\"R1\",\"R2\",\"R3\"]"),
   SheetRow("b", "", "no json", "[\"R1\",\"R2\",\"R3\"]"),
   <<"c">>}

NoSheet == [exists |-> FALSE, header |-> <<>>, rows |-> <<>>]

(***************************************************************************)
(* ensureSheetExists and syncWithGoogleSheets, one action per await: the   *)
(* response to a fetch, and the body of a response where the code reads    *)
(* it.  A fetch ends in a response with a status, or rejects (a network    *)
(* error); response.json() gives the parsed body, or rejects when the body *)
(* is no JSON text.  An append puts its rows below the last row that holds *)
(* a value.                                                                *)
(***************************************************************************)
Statuses == {200, 401, 403, 404, 500}
NetworkError == 0
Responses == Statuses \cup {NetworkError}
Ok(status) == status = 200

\* !( !settings.googleSheetId || !settings.googleAccessToken )
SheetConfigOk(s) ==
  /\ "googleSheetId" \in DOMAIN s /\ s["googleSheetId"] # ""
  /\ "googleAccessToken" \in DOMAIN s /\ s["googleAccessToken"] # ""

Fail(c, outcome, error, op) ==
  [c EXCEPT !.pc = "done", !.outcome = outcome, !.error = error,
            !.ops = @ \cup {op}]

\* syncWithGoogleSheets up to its first await: the configuration guard
ShBegin(local, s) ==
  IF SheetConfigOk(s)
  THEN [NoCall EXCEPT !.fn = "sheets", !.pc = "meta",
                      !.settings = s, !.local = local]
  ELSE [NoCall EXCEPT !.fn = "sheets", !.pc = "done",
                      !.settings = s, !.local = local,
                      !.outcome = "ConfigError",
                      !.error = "Configuración incompleta"]

ShStart(s) ==
  /\ backend = "sheets"
  /\ call.pc \in {"idle", "done"}
  /\ call.n < MaxSyncs
  /\ call' = [ShBegin(localJobs, s) EXCEPT !.n = call.n + 1]
  /\ UNCHANGED <<canvas, steady, backend, localJobs, fbDocs, sheet>>
  /\ UNCHANGED appVars

\* the error ensureSheetExists throws for a metadata response that is not OK
MetaError(status) ==
  IF status = 401 \/ status = 403 THEN "Permiso denegado. Revisa el Access Token."
  ELSE IF status = 404 THEN "Hoja de cálculo no encontrada. Revisa el ID."
  ELSE "Error conectando con Google Sheets."

\* the error response.json() rejects with when the body is no JSON text
JsonError == "Unexpected token"

\* ensureSheetExists, step 1: the response to the metadata request
ShMeta(status) ==
  /\ call.fn = "sheets" /\ call.pc = "meta"
  /\ call' = IF status = NetworkError
             THEN Fail(call, "TransportError", "Failed to fetch", "meta")
             ELSE IF ~Ok(status)
             THEN Fail(call, "TransportError", MetaError(status), "meta")
             ELSE [call EXCEPT !.pc = "metaBody", !.ops = @ \cup {"meta"}]
  /\ UNCHANGED <<canvas, steady, backend, localJobs, fbDocs, sheet>>
  /\ UNCHANGED appVars

\* await metaRes.json(): the titles of the sheets, or a rejection
ShMetaBody(isJson) ==
  /\ call.fn = "sheets" /\ call.pc = "metaBody"
  /\ call' = IF ~isJson
             THEN Fail(call, "SyntaxError", JsonError, "meta")
             ELSE [call EXCEPT !.pc = IF sheet.exists THEN "read" ELSE "addSheet"]
  /\ UNCHANGED <<canvas, steady, backend, localJobs, fbDocs, sheet>>
  /\ UNCHANGED appVars

\* ensureSheetExists, step 2: batchUpdate addSheet
ShAddSheet(status) ==
  /\ call.fn = "sheets" /\ call.pc = "addSheet"
  /\ IF status = NetworkError
     THEN /\ call' = Fail(call, "TransportError", "Failed to fetch", "addSheet")
          /\ UNCHANGED sheet
     ELSE IF ~Ok(status)
     THEN /\ call' = Fail(call, "TransportError",
                          "No se pudo crear la pestaña 'TallerProData'.", "addSheet")
          /\ UNCHANGED sheet
     ELSE /\ call' = [call EXCEPT !.pc = "header", !.ops = @ \cup {"addSheet"}]
          /\ sheet' = [sheet EXCEPT !.exists = TRUE]
  /\ UNCHANGED <<canvas, steady, backend, localJobs, fbDocs>>
  /\ UNCHANGED appVars

\* ensureSheetExists, step 3: the header row; the response is not looked at
ShHeader(status) ==
  /\ call.fn = "sheets" /\ call.pc = "header"
  /\ IF status = NetworkError
     THEN /\ call' = Fail(call, "TransportError", "Failed to fetch", "header")
          /\ UNCHANGED sheet
     ELSE /\ call' = [call EXCEPT !.pc = "read", !.ops = @ \cup {"header"}]
          /\ sheet' = IF Ok(status) THEN [sheet EXCEPT !.header = Headers] ELSE sheet
  /\ UNCHANGED <<canvas, steady, backend, localJobs, fbDocs>>
  /\ UNCHANGED appVars

\* the merge and the sort, from the sheetJobs the try block has left
ShMerged(c, sheetJobs, merged, readFailed) ==
  [c EXCEPT !.pc = "clear", !.remoteJobs = sheetJobs,
            !.mergedJobs = merged, !.merged = TRUE,
            !.readFailed = readFailed]

\* step 1 of the sync: the response to the read of A2:K.  A response that is
\* not OK and a rejected fetch leave sheetJobs empty, and the merge follows.
ShRead(status) ==
  /\ call.fn = "sheets" /\ call.pc = "read"
  /\ IF Ok(status)
     THEN call' = [call EXCEPT !.pc = "readBody", !.ops = @ \cup {"read"}]
     ELSE \E merged \in SortOutcomes(MergeSheets(call.local, <<>>)) :
            call' = [ShMerged(call, <<>>, merged, TRUE)
                       EXCEPT !.ops = @ \cup {"read"}]
  /\ UNCHANGED <<canvas, steady, backend, localJobs, fbDocs, sheet>>
  /\ UNCHANGED appVars

\* the rows a read of A2:K gives: the rows down to the last one with a value
ValuesOf(rows) ==
  SubSeq(rows, 1,
         IF \E i \in 1..Len(rows) : rows[i] # <<>>
         THEN CHOOSE i \in 1..Len(rows) :
                rows[i] # <<>> /\ \A k \in (i + 1)..Len(rows) : rows[k] = <<>>
         ELSE 0)

\* await response.json(), then data.values.map(rowToJob), the merge and the
\* sort.  A body that is no JSON and a row rowToJob throws on leave
\* sheetJobs empty.
ShReadBody(isJson, nows) ==
  /\ call.fn = "sheets" /\ call.pc = "readBody"
  /\ LET decoded == isJson /\ \A i \in 1..Len(sheet.rows) :
                                 ~RowToJobThrows(sheet.rows[i])
         sheetJobs == IF decoded THEN DecodeRows(sheet.rows, nows) ELSE <<>>
     IN \E merged \in SortOutcomes(MergeSheets(call.local, sheetJobs)) :
          call' = ShMerged(call, sheetJobs, merged, ~decoded)
  /\ UNCHANGED <<canvas, steady, backend, localJobs, fbDocs, sheet>>
  /\ UNCHANGED appVars

\* the data rows of the range A2:K1000 the clear request names
ClearedRows == 999

\* the data rows once A2:K1000 is cleared: the rows below row 1000 keep their
\* values
ClearRange(rows) ==
  ValuesOf([i \in 1..Len(rows) |-> IF i <= ClearedRows THEN <<>> ELSE rows[i]])

\* step 3: clear A2:K1000 (the response is not looked at), then
\* mergedJobs.map(jobToRow)
ShClear(status) ==
  /\ call.fn = "sheets" /\ call.pc = "clear"
  /\ IF status = NetworkError
     THEN /\ call' = Fail(call, "TransportError", "Failed to fetch", "clear")
          /\ UNCHANGED sheet
     ELSE /\ sheet' = IF Ok(status)
                      THEN [sheet EXCEPT !.rows = ClearRange(@)] ELSE sheet
          /\ call' =
               IF \E i \in 1..Len(call.mergedJobs) :
                    ToISOStringThrows(call.mergedJobs[i]["createdAt"])
               THEN Fail(call, "RangeError", "Invalid time value", "clear")
               ELSE [call EXCEPT !.pc = "append",
                                 !.payload = [i \in 1..Len(call.mergedJobs) |->
                                                JobToRow(call.mergedJobs[i])],
                                 !.ops = @ \cup {"clear"}]
  /\ UNCHANGED <<canvas, steady, backend, localJobs, fbDocs>>
  /\ UNCHANGED appVars

\* the error.message of the JSON body of a write response that is not OK;
\* "" is a body without one
ErrorBodies == {"", "The caller does not have permission"}

\* `Error escribiendo en Sheet: ${err.error?.message || 'Unknown error'}`
WriteError(body) ==
  "Error escribiendo en Sheet: " \o (IF body = "" THEN "Unknown error" ELSE body)

\* a body that is no JSON text
NotJson == "<html>"

\* the response to the append of the rows: the function returns mergedJobs
\* when it is OK
ShAppend(status) ==
  /\ call.fn = "sheets" /\ call.pc = "append"
  /\ IF status = NetworkError
     THEN /\ call' = Fail(call, "TransportError", "Failed to fetch", "append")
          /\ UNCHANGED <<sheet, localJobs>>
     ELSE IF ~Ok(status)
     THEN /\ call' = [call EXCEPT !.pc = "appendBody", !.ops = @ \cup {"append"}]
          /\ UNCHANGED <<sheet, localJobs>>
     ELSE /\ sheet' = [sheet EXCEPT !.rows = @ \o call.payload]
          /\ call' = [call EXCEPT !.pc = "done", !.outcome = "ok",
                                  !.returned = call.mergedJobs,
                                  !.ops = @ \cup {"append"}]
          /\ localJobs' = call.mergedJobs
  /\ UNCHANGED <<canvas, steady, backend, fbDocs>>
  /\ UNCHANGED appVars

\* const err = await writeResponse.json(), then the throw
ShAppendBody(body) ==
  /\ call.fn = "sheets" /\ call.pc = "appendBody"
  /\ call' = IF body = NotJson
             THEN Fail(call, "SyntaxError", JsonError, "append")
             ELSE Fail(call, "TransportError", WriteError(body), "append")
  /\ UNCHANGED <<canvas, steady, backend, localJobs, fbDocs, sheet>>
  /\ UNCHANGED appVars

(***************************************************************************)
(* Spec: the two orchestrators called again and again by one caller, from  *)
(* every local list and every remote store within the bounds.              *)
(***************************************************************************)
\* no call of handleUpdateJob yet
NoEdit == [id |-> "", updates |-> <<>>]

\* nothing loaded from storage yet
NoInitial == [jobs |-> <<>>, settings |-> <<>>]

\* run counts the handler calls of the App, records the arguments of the
\* latest handleUpdateJob call, and holds the handleImageUpload calls that
\* are waiting for the analysis, each with what it took from its render
AppIdle ==
  /\ run = [mounted |-> FALSE, pending |-> FALSE, initial |-> NoInitial,
            failed |-> 0, created |-> 0, edits |-> 0, saves |-> 0, edited |-> NoEdit,
            uploads |-> <<>>]
  /\ jobs = <<>>
  /\ settings = NoSettings
  /\ syncStatus = "idle"
  /\ inflight = <<>>
  /\ timers = 0

InitFirebase ==
  /\ backend = "firebase"
  /\ canvas \in BOOLEAN
  /\ steady = NoneDrawn
  /\ localJobs \in SeqsUpTo(LocalJobs, MaxEntries)
  /\ fbDocs \in {d \in RemoteStores :
                   Cardinality(DOMAIN d) + Len(localJobs) <= MaxEntries}
  /\ sheet = NoSheet

\* a tab with one data row more than the clear request covers: rows without
\* an id down to row 1000 of the sheet, and the row of job b in row 1001
LongSheet ==
  [exists |-> TRUE, header |-> Headers,
   rows |-> [i \in 1..(ClearedRows + 1) |->
               IF i <= ClearedRows THEN SheetRow("", IsoOf[1], "[]", "[]")
               ELSE SheetRow("b", IsoOf[3], "[]", "[]")]]

\* syncWithGoogleSheets draws nothing
InitSheets ==
  /\ backend = "sheets"
  /\ canvas = TRUE
  /\ steady = NoneDrawn
  /\ localJobs \in SeqsUpTo(LocalJobs, MaxEntries)
  /\ fbDocs = <<>>
  /\ sheet \in {NoSheet}
       \cup {[exists |-> TRUE, header |-> Headers, rows |-> r] :
               r \in SeqsUpTo(RowUniverse, MaxEntries - Len(localJobs))}
       \cup (IF Len(localJobs) <= 1 THEN {LongSheet} ELSE {})

Init ==
  /\ InitFirebase \/ InitSheets
  /\ call = NoCall
  /\ AppIdle

Next ==
  \/ \E s \in FirebaseSettings : FbStart(s)
  \/ FbGetDocsOk
  \/ FbGetDocsFail
  \/ FbIntakeSettled
  \/ FbDamageSettled
  \/ FbCommitOk
  \/ FbCommitFail
  \/ \E s \in SheetSettings : ShStart(s)
  \/ \E status \in Responses : ShMeta(status)
  \/ \E isJson \in BOOLEAN : ShMetaBody(isJson)
  \/ \E status \in Responses : ShAddSheet(status)
  \/ \E status \in Responses : ShHeader(status)
  \/ \E status \in Responses : ShRead(status)
  \/ \E isJson \in BOOLEAN, nows \in Clocks(sheet.rows) : ShReadBody(isJson, nows)
  \/ \E status \in Responses : ShClear(status)
  \/ \E status \in Responses : ShAppend(status)
  \/ \E body \in ErrorBodies \cup {NotJson} : ShAppendBody(body)

Spec == Init /\ [][Next]_vars

(***************************************************************************)
(* SpecCap: syncWithFirebase called with job lists around the batch cap.   *)
(***************************************************************************)
\* the i-th job of a long list: the larger i, the newer the job
BulkJob(i) == TextL(BulkId(i), 10 + i)

\* n jobs, the oldest first
BulkList(n) == [i \in 1..n |-> BulkJob(i)]

BulkRemoteStores ==
  {<<>>, "a" :> RemoteFull("a", 3), "c" :> RemoteFull("c", 1000)}

InitCap ==
  /\ backend = "firebase"
  /\ canvas \in BOOLEAN
  /\ steady = NoneDrawn
  /\ localJobs \in {BulkList(n) : n \in (BatchCap - 1)..(BatchCap + MaxOver)}
  /\ fbDocs \in BulkRemoteStores
  /\ sheet = NoSheet
  /\ call = NoCall
  /\ AppIdle

NextCap ==
  \/ \E s \in FirebaseSettings : FbStart(s)
  \/ FbGetDocsOk
  \/ FbGetDocsFail
  \/ FbIntakeSettled
  \/ FbDamageSettled
  \/ FbCommitOk
  \/ FbCommitFail

SpecCap == InitCap /\ [][NextCap]_vars

(***************************************************************************)
(* SpecCodec: jobToRow and rowToJob called on one job and one row, and the *)
(* round trip rowToJob(jobToRow(job)).  The job is localJobs[1], the row   *)
(* is sheet.rows[1], and call holds the call made and what it gave.        *)
(***************************************************************************)
PartWithSep == <<"P", ",", " ", "Q">>

CodecJobs ==
  {LocalFull("a", 1), LocalFresh("a", 2), LocalBare("a", 2),
   RemoteFull("b", 3), RemoteBare("b", 1), LocalFull("", 1),
   [LocalFull("a", 1) EXCEPT !["createdAt"] = NaN],
   [LocalFull("c", 3) EXCEPT !["identifiedParts"] = <<>>, !["manualNotes"] = ""],
   [LocalFull("c", 3) EXCEPT !["identifiedParts"] = << <<>> >>],
   [LocalFull("c", 3) EXCEPT !["identifiedParts"] = <<PartP, <<>>, PartQ>>],
   [LocalFull("c", 3) EXCEPT !["identifiedParts"] = <<PartWithSep, PartP>>],
   [LocalFull("c", 3) EXCEPT !["status"] = "Terminado", !["repairType"] = "PINTURA"]}

CodecRows ==
  RowUniverse
  \cup {<<>>,
        <<"a", IsoOf[1]>>,
        <<"a", IsoOf[1], "", "", "", "", "", <<>>, "", "", "">>,
        <<"a", IsoOf[1], "Terminado", "1", "2", "3", "CHAPA", NumberCell, "y", "[]", "[]">>,
        <<"a", IsoOf[1], "Terminado", "1", "2", "3", "CHAPA", PartP, "y", "{}", "{}">>,
        <<"a", IsoOf[1], "Terminado", "1", "2", "3", "CHAPA", PartWithSep, "y",
          "[\"R0\"]", "no json">>,
        SheetRow("b", IsoOf[2], "[]", "[]") \o <<"extra">>}

\* jobToRow(job)
JobToRowCall(job) ==
  IF ToISOStringThrows(job["createdAt"])
  THEN [NoCall EXCEPT !.fn = "jobToRow", !.pc = "done", !.local = <<job>>,
                      !.outcome = "RangeError", !.error = "Invalid time value"]
  ELSE [NoCall EXCEPT !.fn = "jobToRow", !.pc = "done", !.local = <<job>>,
                      !.payload = <<JobToRow(job)>>, !.outcome = "ok"]

\* rowToJob(row)
RowToJobCall(row, now) ==
  IF RowToJobThrows(row)
  THEN [NoCall EXCEPT !.fn = "rowToJob", !.pc = "done", !.payload = <<row>>,
                      !.outcome = "TypeError",
                      !.error = "partsStr.split is not a function"]
  ELSE [NoCall EXCEPT !.fn = "rowToJob", !.pc = "done", !.payload = <<row>>,
                      !.returned = <<RowToJob(row, now)>>, !.outcome = "ok"]

\* rowToJob(jobToRow(job))
RoundTripCall(job, now) ==
  IF ToISOStringThrows(job["createdAt"])
  THEN [JobToRowCall(job) EXCEPT !.fn = "roundTrip"]
  ELSE [RowToJobCall(JobToRow(job), now) EXCEPT !.fn = "roundTrip",
                                                !.local = <<job>>]

CallJobToRow ==
  /\ backend = "codec"
  /\ call' = JobToRowCall(localJobs[1])
  /\ UNCHANGED <<canvas, steady, backend, localJobs, fbDocs, sheet>>
  /\ UNCHANGED appVars

CallRowToJob(now) ==
  /\ backend = "codec"
  /\ call' = RowToJobCall(sheet.rows[1], now)
  /\ UNCHANGED <<canvas, steady, backend, localJobs, fbDocs, sheet>>
  /\ UNCHANGED appVars

CallRoundTrip(now) ==
  /\ backend = "codec"
  /\ call' = RoundTripCall(localJobs[1], now)
  /\ UNCHANGED <<canvas, steady, backend, localJobs, fbDocs, sheet>>
  /\ UNCHANGED appVars

InitCodec ==
  /\ backend = "codec"
  /\ canvas = TRUE
  /\ steady = NoneDrawn
  /\ localJobs \in {<<job>> : job \in CodecJobs}
  /\ sheet \in {[exists |-> TRUE, header |-> Headers, rows |-> <<row>>] :
                  row \in CodecRows}
  /\ fbDocs = <<>>
  /\ call = NoCall
  /\ AppIdle

NextCodec ==
  \/ CallJobToRow
  \/ \E now \in NowTimes : CallRowToJob(now)
  \/ \E now \in NowTimes : CallRoundTrip(now)

SpecCodec == InitCodec /\ [][NextCodec]_vars

(***************************************************************************)
(* SpecImage: compressImage on the intake photo of one job, one action for *)
(* the executor of its promise and one for each event handler of the       *)
(* image, and prepareJobForCloud on the job.                               *)
(***************************************************************************)
ImageJobs ==
  {[LocalFull("a", 1) EXCEPT !["intakeImage"] = p] :
      p \in Pictures \cup CorruptImages
              \cup {"L0", Jpeg("L0"), Jpeg("pic1600x601"), Jpeg(Jpeg("L0"))}}
  \cup {[LocalFull("a", 1) EXCEPT !["damageImages"] = <<"pic1600x601", "L1">>],
        LocalFresh("a", 1), LocalBare("a", 1)}

\* new Promise(...): the image is created and given its src; nothing is
\* settled before one of its events fires
CompressStart ==
  /\ backend = "image"
  /\ call.pc \in {"idle", "done"}
  /\ Truthy(Val(localJobs[1], "intakeImage"))
  /\ call' = [NoCall EXCEPT !.fn = "compressImage", !.pc = "pending",
                            !.payload = <<localJobs[1]["intakeImage"]>>]
  /\ UNCHANGED <<canvas, steady, backend, localJobs, fbDocs, sheet>>
  /\ UNCHANGED appVars

\* the promise settled by an event handler
Settled1(c, result, op) ==
  [c EXCEPT !.pc = "done", !.outcome = result.state, !.returned = <<result>>,
            !.ops = {op}]

\* img.onload
ImgLoad ==
  /\ backend = "image"
  /\ call.fn = "compressImage" /\ call.pc = "pending"
  /\ call.payload[1] \notin CorruptImages
  /\ \E f \in SUBSET Redrawn({call.payload[1]}) :
       /\ Encode({call.payload[1]}, f)
       /\ call' = Settled1(call, OnLoad(call.payload[1], CanvasWith(f)),
                      IF canvas THEN "load" ELSE "noContext")
  /\ UNCHANGED <<canvas, backend, localJobs, fbDocs, sheet>>
  /\ UNCHANGED appVars

\* img.onerror
ImgError ==
  /\ backend = "image"
  /\ call.fn = "compressImage" /\ call.pc = "pending"
  /\ call.payload[1] \in CorruptImages
  /\ call' = Settled1(call, OnError(call.payload[1]), "error")
  /\ UNCHANGED <<canvas, steady, backend, localJobs, fbDocs, sheet>>
  /\ UNCHANGED appVars

\* a prepareJobForCloud call at p: waiting for images, or returned
Preparing(c, p) ==
  IF p.pc = "prepared"
  THEN [c EXCEPT !.pc = "done", !.outcome = "ok", !.jobToSave = <<>>,
                 !.returned = <<p.jobToSave>>]
  ELSE [c EXCEPT !.pc = p.pc, !.jobToSave = p.jobToSave]

\* prepareJobForCloud(job) up to its first wait for an image
PrepareStart ==
  /\ backend = "image"
  /\ call.pc \in {"idle", "done"}
  /\ call' = Preparing([NoCall EXCEPT !.fn = "prepareJobForCloud",
                                      !.local = localJobs],
                       PrepStart(localJobs[1]))
  /\ UNCHANGED <<canvas, steady, backend, localJobs, fbDocs, sheet>>
  /\ UNCHANGED appVars

\* await compressImage(jobToSave.intakeImage) settled
PrepareIntakeSettled ==
  /\ backend = "image"
  /\ call.fn = "prepareJobForCloud" /\ call.pc = "intake"
  /\ \E f \in SUBSET Redrawn(IntakeOf(PrepOf(call))) :
       /\ Encode(IntakeOf(PrepOf(call)), f)
       /\ call' = Preparing(call, PrepIntake(PrepOf(call), CanvasWith(f)))
  /\ UNCHANGED <<canvas, backend, localJobs, fbDocs, sheet>>
  /\ UNCHANGED appVars

\* await Promise.all(jobToSave.damageImages.map(...)) settled
PrepareDamageSettled ==
  /\ backend = "image"
  /\ call.fn = "prepareJobForCloud" /\ call.pc = "damage"
  /\ \E f \in SUBSET Redrawn(DamagesOf(PrepOf(call))) :
       /\ Encode(DamagesOf(PrepOf(call)), f)
       /\ call' = Preparing(call, PrepDamage(PrepOf(call), CanvasWith(f)))
  /\ UNCHANGED <<canvas, backend, localJobs, fbDocs, sheet>>
  /\ UNCHANGED appVars

InitImage ==
  /\ backend = "image"
  /\ canvas \in BOOLEAN
  /\ steady = NoneDrawn
  /\ localJobs \in {<<job>> : job \in ImageJobs}
  /\ sheet = NoSheet
  /\ fbDocs = <<>>
  /\ call = NoCall
  /\ AppIdle

NextImage ==
  \/ CompressStart
  \/ ImgLoad
  \/ ImgError
  \/ PrepareStart
  \/ PrepareIntakeSettled
  \/ PrepareDamageSettled

SpecImage == InitImage /\ [][NextImage]_vars

(***************************************************************************)
(* SpecApp: the App component.  Its handlers start syncWithFirebase calls  *)
(* and do not wait for them; a call sits in inflight until its promise     *)
(* settles and the then or catch callback runs.  A call rejected by the    *)
(* configuration guard sits there at pc "done" until its catch callback,   *)
(* a microtask, runs: no handler runs before it.  localJobs is the list    *)
(* kept in localStorage under 'taller_jobs'.  The step of a handler or of  *)
(* a callback includes the render of the state it has set and the effects  *)
(* of that render; the render the mount effect asks for is a step of its   *)
(* own, Render, and handlers and callbacks run after it.                   *)
(***************************************************************************)
MaxSaves == 1     \* handleSaveSettings calls in one run of the App

\* JSON.parse(JSON.stringify(jobs)): what localStorage gives back
Stored(js) == [i \in 1..Len(js) |-> CleanData(js[i])]

\* the lists in localStorage, as the save effect wrote them: none, or job b
\* with one damage photo and job a without a photo
StoredJobLists ==
  {<<>>,
   Stored(<<[LocalFresh("b", 2) EXCEPT !["damageImages"] = <<"L1">>],
            LocalFresh("a", 1)>>)}

AppRemoteStores == {<<>>, "a" :> RemoteBare("a", 3)}

AppSettings ==
  {NoSettings, [firebaseConfig |-> FbComplete],
   [firebaseConfig |-> [FbComplete EXCEPT !.apiKey = ""]]}

\* Date.now() when the k-th job of the run is created: the clock does not
\* run backwards
ClockAt(k) == IF k <= 1 THEN 2 ELSE 3

MaxSaveFailures == 1   \* setItem calls that throw in one run of the App

\* the save effect, run by a render whose jobs is js, r being the counters
\* of the run after the handler: setItem writes the list, or throws (the
\* quota is exceeded), the effect catches it and localStorage keeps what it
\* held
SaveEffect(js, r) ==
  \/ /\ localJobs' = Stored(js)
     /\ run' = r
  \/ /\ r.failed < MaxSaveFailures
     /\ localJobs' = localJobs
     /\ run' = [r EXCEPT !.failed = @ + 1]

\* CarIntakeTab.createJob
CreateJob(id, now, carDetails, currentImage) ==
  [id |-> id, createdAt |-> now, status |-> "Ingreso",
   carDetails |-> carDetails,
   intakeImage |-> IF Truthy(currentImage) THEN currentImage ELSE UndefStr,
   identifiedParts |-> <<>>, damageImages |-> <<>>,
   manualNotes |-> "", repairType |-> "CHAPA"]

\* seq without its element at index i: splice(i, 1)
Splice(seq, i) ==
  [k \in 1..(Len(seq) - 1) |-> IF k < i THEN seq[k] ELSE seq[k + 1]]

DamageOf(job) ==
  IF NonEmptyArr(Val(job, "damageImages")) THEN job["damageImages"] ELSE <<>>

\* DamageAssessmentTab: the jobs the tab offers, those waiting for their
\* assessment
IntakeJobs(activeJobs) ==
  SelectSeq(activeJobs, LAMBDA j : j["status"] \in {"Ingreso", "Valoración"})

\* activeJobs.find(j => j.id === selectedJobId), for an id the list holds
SelectedJob(activeJobs, selectedJobId) ==
  activeJobs[CHOOSE i \in 1..Len(activeJobs) :
               /\ activeJobs[i]["id"] = selectedJobId
               /\ \A k \in 1..(i - 1) : activeJobs[k]["id"] # selectedJobId]

\* the form of the tab once the job is selected: the parts, the notes and
\* the repair type are the job's own; no assessment text yet
FormOf(selectedJob) ==
  [detectedParts |-> IF "identifiedParts" \in DOMAIN selectedJob
                     THEN selectedJob["identifiedParts"] ELSE <<>>,
   notes |-> IF Truthy(Val(selectedJob, "manualNotes"))
             THEN selectedJob["manualNotes"] ELSE "",
   repairType |-> IF Truthy(Val(selectedJob, "repairType"))
                  THEN selectedJob["repairType"] ELSE "AMBOS",
   damageAssessment |-> ""]

\* [...new Set(parts)]: every part once, at the place of its first occurrence
NewSet(parts) ==
  LET F[i \in 0..Len(parts)] ==
        IF i = 0 THEN <<>>
        ELSE IF \E k \in 1..(i - 1) : parts[k] = parts[i] THEN F[i - 1]
        ELSE Append(F[i - 1], parts[i])
  IN F[Len(parts)]

\* what handleImageUpload passes to onUpdateJob once the analysis has
\* answered with detected: u is what the call took from its render
UploadUpdate(u, detected) ==
  [damageImages |-> u.damageImages \o <<u.base64>>,
   status |-> "Valoración",
   identifiedParts |-> NewSet(u.detectedParts \o detected)]

\* what saveWorkOrder passes to onUpdateJob for the form as it is
WorkOrder(form) ==
  [identifiedParts |-> form.detectedParts,
   manualNotes |-> form.notes \o (IF form.damageAssessment # ""
                                  THEN "\n[IA Evaluación]: " \o form.damageAssessment
                                  ELSE ""),
   repairType |-> form.repairType,
   status |-> "En Proceso"]

\* a part the user types in
PartM == <<"M">>

\* removePart(part): prev.filter(p => p !== part)
RemovePart(parts, part) == SelectSeq(parts, LAMBDA p : p # part)

\* the form when the user presses the button: as the selection filled it,
\* or with a part added by hand (addManualPart), or with part Q removed,
\* the notes typed anew and another repair type chosen
Forms(selectedJob) ==
  LET own == FormOf(selectedJob)
  IN {own,
      [own EXCEPT !.detectedParts = Append(@, PartM)],
      [own EXCEPT !.detectedParts = RemovePart(@, PartQ),
                  !.notes = "x", !.repairType = "CHAPA"]}

\* The updates the callers that do not wait pass to onUpdateJob / onSave for
\* a job of the list: saveWorkOrder of the tab, for a job the tab offers
\* and a form that names a part (the button is disabled without one), and
\* handleSave of the details modal, which passes the whole job as edited:
\* a damage image deleted, or the status set to 'Terminado'
UpdatesOf(job) ==
  (IF job["status"] \in {"Ingreso", "Valoración"}
   THEN {WorkOrder(form) : form \in {f \in Forms(job) : Len(f.detectedParts) > 0}}
   ELSE {})
  \cup {Spread(job, [damageImages |-> Splice(DamageOf(job), i)]) :
          i \in 1..Len(DamageOf(job))}
  \cup {Spread(job, [status |-> "Terminado"])}

\* jobs.map(job => job.id === jobId ? { ...job, ...updates } : job)
ApplyUpdate(js, jobId, updates) ==
  [i \in 1..Len(js) |->
     IF js[i]["id"] = jobId THEN Spread(js[i], updates) ELSE js[i]]

\* no catch callback is waiting to run
NoMicrotask == \A i \in 1..Len(inflight) : inflight[i].pc # "done"

\* the calls between their first request and their settlement
Pending == {i \in 1..Len(inflight) : inflight[i].pc # "done"}

\* A mutation: the catch callback empties the job list.
JobsAfterFailureCleared(js) == <<>>

\* catch: the job list is not touched
JobsAfterFailure(js) == js

\* performSync and the two inline copies of it: with a firebaseConfig the
\* status is 'syncing' and a call is started
StartSync(currentJobs, currentSettings) ==
  IF "firebaseConfig" \in DOMAIN currentSettings
  THEN /\ syncStatus' = "syncing"
       /\ inflight' = Append(inflight, FbBegin(currentJobs, currentSettings))
  ELSE UNCHANGED <<syncStatus, inflight>>

\* what SpecApp keeps of a call that has settled: how it ended
Settled(c) ==
  [NoCall EXCEPT !.fn = c.fn, !.pc = "done", !.outcome = c.outcome,
                 !.error = c.error, !.ops = c.ops]

\* .then / the code after the await: setJobs(merged), 'synced', the timer
Resolved(i, c) ==
  /\ jobs' = c.returned
  /\ SaveEffect(c.returned, run)
  /\ syncStatus' = "synced"
  /\ timers' = timers + 1
  /\ inflight' = Splice(inflight, i)
  /\ call' = Settled(c)
  /\ UNCHANGED <<canvas, backend, sheet, settings>>

\* .catch / the catch block: 'error'; the save effect runs when jobs changed
Rejected(i, c) ==
  /\ jobs' = JobsAfterFailure(jobs)
  /\ IF jobs' = jobs THEN UNCHANGED <<localJobs, run>>
     ELSE SaveEffect(jobs', run)
  /\ syncStatus' = "error"
  /\ inflight' = Splice(inflight, i)
  /\ call' = Settled(c)
  /\ UNCHANGED <<canvas, backend, sheet, settings, timers>>

\* the effects of the first render.  The mount effect loads storage, hands
\* the loaded list and settings to setJobs and setSettings, and starts the
\* initial sync with them; the state it has set is shown by the next render
\* only.  The save effect of this render then runs with the jobs of this
\* render, which is [], and writes it over the stored list.
Mount(savedSettings) ==
  /\ ~run.mounted
  /\ SaveEffect(jobs, [run EXCEPT !.mounted = TRUE, !.pending = TRUE,
                                  !.initial = [jobs |-> localJobs,
                                               settings |-> savedSettings]])
  /\ inflight' = IF "firebaseConfig" \in DOMAIN savedSettings
                 THEN Append(inflight, FbBegin(localJobs, savedSettings))
                 ELSE inflight
  /\ UNCHANGED <<canvas, steady, backend, fbDocs, sheet, call, jobs, settings,
                 syncStatus, timers>>

\* the render the mount effect asked for, and its effects: the state is the
\* one the mount effect has set, and the save effect writes the loaded list
\* back
Render ==
  /\ run.pending
  /\ jobs' = run.initial.jobs
  /\ settings' = run.initial.settings
  /\ syncStatus' = IF "firebaseConfig" \in DOMAIN run.initial.settings
                   THEN "syncing" ELSE syncStatus
  /\ SaveEffect(jobs', [run EXCEPT !.pending = FALSE, !.initial = NoInitial])
  /\ UNCHANGED <<canvas, steady, backend, fbDocs, sheet, call, inflight, timers>>

\* the handlers and callbacks run once the loaded state is rendered
Ready == run.mounted /\ ~run.pending

HandleJobCreated(newJob) ==
  /\ Ready /\ NoMicrotask
  /\ run.created < MaxAppJobs /\ Len(inflight) < MaxInflight
  /\ LET updatedJobs == <<newJob>> \o jobs
     IN /\ jobs' = updatedJobs
        /\ SaveEffect(updatedJobs, [run EXCEPT !.created = @ + 1])
        /\ StartSync(updatedJobs, settings)
  /\ UNCHANGED <<canvas, steady, backend, fbDocs, sheet, call, settings, timers>>

\* the waiting calls of handleImageUpload the run goes on following once it
\* has made edits calls of handleUpdateJob: with MaxEdits calls made, what a
\* waiting call would pass on lies beyond the bound, and the call is left
\* waiting for good
Followed(uploads, edits) == IF edits < MaxEdits THEN uploads ELSE <<>>

\* handleUpdateJob of the render whose jobs and settings are renderJobs and
\* renderSettings: the list it maps over is the one of that render
UpdateJob(renderJobs, renderSettings, jobId, updates, r) ==
  /\ run.edits < MaxEdits /\ Len(inflight) < MaxInflight
  /\ LET updatedJobs == ApplyUpdate(renderJobs, jobId, updates)
     IN /\ jobs' = updatedJobs
        /\ SaveEffect(updatedJobs,
                      [r EXCEPT !.edits = @ + 1,
                                !.edited = [id |-> jobId, updates |-> updates],
                                !.uploads = Followed(@, r.edits + 1)])
        /\ StartSync(updatedJobs, renderSettings)
  /\ UNCHANGED <<canvas, steady, backend, fbDocs, sheet, call, settings, timers>>

\* handleUpdateJob called by a handler that does not wait (saveWorkOrder,
\* handleSave of the modal): the handler of the latest render
HandleUpdateJob(jobId, updates) ==
  /\ Ready /\ NoMicrotask
  /\ UpdateJob(jobs, settings, jobId, updates, run)

\* DamageAssessmentTab.handleImageUpload up to its await: the tab is opened,
\* the job is selected among those it offers and a photo is handed over;
\* the call keeps the selected job, the form and onUpdateJob of this render
\* and waits for analyzeDamageFromImage
HandleImageUpload(selectedJobId, base64) ==
  /\ Ready /\ NoMicrotask
  /\ run.edits < MaxEdits /\ Len(run.uploads) < MaxUploads
  /\ \E k \in 1..Len(IntakeJobs(jobs)) : IntakeJobs(jobs)[k]["id"] = selectedJobId
  /\ LET selectedJob == SelectedJob(jobs, selectedJobId)
     IN run' = [run EXCEPT !.uploads = Append(@,
                  [selectedJobId |-> selectedJobId,
                   base64 |-> base64, damageImages |-> DamageOf(selectedJob),
                   detectedParts |-> FormOf(selectedJob).detectedParts,
                   jobs |-> jobs, settings |-> settings])]
  /\ UNCHANGED <<canvas, steady, backend, localJobs, fbDocs, sheet, call, jobs,
                 settings, syncStatus, inflight, timers>>

\* handleImageUpload after its await: the analysis of the k-th waiting call
\* has answered, and the call passes the photo and the parts to the
\* onUpdateJob it kept
ImageAnalysed(k, detected) ==
  /\ Ready /\ NoMicrotask
  /\ k \in 1..Len(run.uploads)
  /\ UpdateJob(run.uploads[k].jobs, run.uploads[k].settings,
               run.uploads[k].selectedJobId,
               UploadUpdate(run.uploads[k], detected),
               [run EXCEPT !.uploads = Splice(@, k)])

\* handleImageUpload after its await, the analysis having failed: the catch
\* block shows a message and nothing is passed on
ImageAnalysisFailed(k) ==
  /\ Ready /\ NoMicrotask
  /\ k \in 1..Len(run.uploads)
  /\ run' = [run EXCEPT !.uploads = Splice(@, k)]
  /\ UNCHANGED <<canvas, steady, backend, localJobs, fbDocs, sheet, call, jobs,
                 settings, syncStatus, inflight, timers>>

HandleSaveSettings(newSettings) ==
  /\ Ready /\ NoMicrotask
  /\ run.saves < MaxSaves /\ Len(inflight) < MaxInflight
  /\ run' = [run EXCEPT !.saves = @ + 1]
  /\ settings' = newSettings
  /\ StartSync(jobs, newSettings)
  /\ UNCHANGED <<canvas, steady, backend, localJobs, fbDocs, sheet, call, jobs, timers>>

\* a call of the App at c after a step of it: settled, or waiting again
Advance(i, c) ==
  IF c.pc = "done"
  THEN IF c.outcome = "ok" THEN Resolved(i, c) ELSE Rejected(i, c)
  ELSE /\ inflight' = [inflight EXCEPT ![i] = c]
       /\ UNCHANGED <<canvas, backend, localJobs, sheet, call, run, jobs,
                      settings, syncStatus, timers>>

\* the catch callback of a call the configuration guard rejected
AppConfigRejected(i) ==
  /\ Ready
  /\ i \in 1..Len(inflight) /\ inflight[i].pc = "done"
  /\ Rejected(i, inflight[i])
  /\ UNCHANGED <<steady, fbDocs>>

AppGetDocsOk(i) ==
  /\ Ready /\ NoMicrotask
  /\ i \in 1..Len(inflight) /\ inflight[i].pc = "getDocs"
  /\ \E merged \in SortOutcomes(MergeFirebase(inflight[i].local, Snapshot(fbDocs))) :
       Advance(i, FbFetched(inflight[i], fbDocs, merged))
  /\ UNCHANGED <<steady, fbDocs>>

AppGetDocsFail(i) ==
  /\ Ready /\ NoMicrotask
  /\ i \in 1..Len(inflight) /\ inflight[i].pc = "getDocs"
  /\ Rejected(i, FbFetchFailed(inflight[i]))
  /\ UNCHANGED <<steady, fbDocs>>

AppIntakeSettled(i) ==
  /\ Ready /\ NoMicrotask
  /\ i \in 1..Len(inflight) /\ inflight[i].pc = "intake"
  /\ \E f \in SUBSET Redrawn(IntakeOf(PrepOf(inflight[i]))) :
       /\ Encode(IntakeOf(PrepOf(inflight[i])), f)
       /\ Advance(i, FbPrepared(inflight[i],
                                PrepIntake(PrepOf(inflight[i]), CanvasWith(f))))
  /\ UNCHANGED fbDocs

AppDamageSettled(i) ==
  /\ Ready /\ NoMicrotask
  /\ i \in 1..Len(inflight) /\ inflight[i].pc = "damage"
  /\ \E f \in SUBSET Redrawn(DamagesOf(PrepOf(inflight[i]))) :
       /\ Encode(DamagesOf(PrepOf(inflight[i])), f)
       /\ Advance(i, FbPrepared(inflight[i],
                                PrepDamage(PrepOf(inflight[i]), CanvasWith(f))))
  /\ UNCHANGED fbDocs

AppCommitOk(i) ==
  /\ Ready /\ NoMicrotask
  /\ i \in 1..Len(inflight) /\ inflight[i].pc = "commit"
  /\ fbDocs' = CommitBatch(fbDocs, inflight[i].payload)
  /\ Resolved(i, FbCommitted(inflight[i]))
  /\ UNCHANGED steady

AppCommitFail(i) ==
  /\ Ready /\ NoMicrotask
  /\ i \in 1..Len(inflight) /\ inflight[i].pc = "commit"
  /\ Rejected(i, FbCommitFailed(inflight[i]))
  /\ UNCHANGED <<steady, fbDocs>>

\* setTimeout(() => setSyncStatus('idle'), 3000)
TimerFire ==
  /\ NoMicrotask
  /\ timers > 0
  /\ timers' = timers - 1
  /\ syncStatus' = "idle"
  /\ UNCHANGED <<canvas, steady, backend, localJobs, fbDocs, sheet, call, run, jobs,
                 settings, inflight>>

\* the browser of the App has a 2d context
InitApp ==
  /\ backend = "firebase"
  /\ canvas = TRUE
  /\ steady = NoneDrawn
  /\ localJobs \in StoredJobLists
  /\ fbDocs \in AppRemoteStores
  /\ sheet = NoSheet
  /\ call = NoCall
  /\ AppIdle

NextApp ==
  \/ \E s \in AppSettings : Mount(s)
  \/ Render
  \/ \E img \in {"L0"} :
       HandleJobCreated(CreateJob(NewIds[run.created + 1],
                                  ClockAt(run.created + 1), CarL, img))
  \/ \E i \in 1..Len(jobs) : \E u \in UpdatesOf(jobs[i]) :
       HandleUpdateJob(jobs[i]["id"], u)
  \/ \E i \in 1..Len(jobs) : HandleImageUpload(jobs[i]["id"], "L1")
  \/ \E k \in 1..MaxUploads : ImageAnalysed(k, <<PartP>>)
  \/ \E k \in 1..MaxUploads : ImageAnalysisFailed(k)
  \/ \E s \in AppSettings : HandleSaveSettings(s)
  \/ \E i \in 1..MaxInflight : AppConfigRejected(i)
  \/ \E i \in 1..MaxInflight : AppGetDocsOk(i)
  \/ \E i \in 1..MaxInflight : AppGetDocsFail(i)
  \/ \E i \in 1..MaxInflight : AppIntakeSettled(i)
  \/ \E i \in 1..MaxInflight : AppDamageSettled(i)
  \/ \E i \in 1..MaxInflight : AppCommitOk(i)
  \/ \E i \in 1..MaxInflight : AppCommitFail(i)
  \/ TimerFire

SpecApp == InitApp /\ [][NextApp]_vars

(***************************************************************************)
(* Properties of the merge, read off the sync invocation once its merge    *)
(* step has run (call.merged).                                             *)
(***************************************************************************)
IdsOf(js) == {js[i]["id"] : i \in 1..Len(js)}

Occurrences(js, id) == {i \in 1..Len(js) : js[i]["id"] = id}

\* the last job of js with this id: the one a Map seeded or overlaid in order
\* ends up with
LastOf(js, id) ==
  js[CHOOSE i \in Occurrences(js, id) : \A k \in Occurrences(js, id) : k <= i]

\* the ids the merge sees in both sources, each held by exactly one local
\* job, so that "the local job" names one job
SharedIds ==
  {id \in IdsOf(call.local) \cap IdsOf(call.remoteJobs) :
     /\ Cardinality(Occurrences(call.local, id)) = 1
     /\ MapHas(call.mergedJobs, id)}

LocalJob(id) == LastOf(call.local, id)
RemoteJob(id) == LastOf(call.remoteJobs, id)
MergedJob(id) == MapGet(call.mergedJobs, id)

\* obj1[k] and obj2[k] are the same value, or both objects lack the key
SameField(obj1, obj2, k) ==
  /\ k \in DOMAIN obj1 <=> k \in DOMAIN obj2
  /\ k \in DOMAIN obj1 => obj1[k] = obj2[k]

\* C1: the ids of the list syncWithFirebase merges and returns are exactly
\* the ids of the local list together with the ids of the remote collection.
C1_MergeIdsAreUnion ==
  (call.fn = "firebase" /\ call.merged) =>
     /\ IdsOf(call.mergedJobs) = IdsOf(call.local) \cup IdsOf(call.remoteJobs)
     /\ call.outcome = "ok" => IdsOf(call.returned) = IdsOf(call.mergedJobs)

C1_Witness ==
  /\ call.fn = "firebase" /\ call.outcome = "ok"
  /\ IdsOf(call.local) \ IdsOf(call.remoteJobs) # {}
  /\ IdsOf(call.remoteJobs) \ IdsOf(call.local) # {}
  /\ Len(call.returned) >= 2

\* C2 as stated: for an id in both sources every non-image field of the
\* merged job is the local job's, a field the local job lacks being absent.
C2_LocalFieldsAlwaysWin ==
  call.merged =>
    \A id \in SharedIds : \A k \in NonImageKeys :
       SameField(MergedJob(id), LocalJob(id), k)

\* C2 amended: for an id in both sources a non-image field of the merged job
\* is the local job's when the local job has the field, and the remote job's
\* when the local job lacks it.
C2_LocalFieldsWinWhenPresent ==
  call.merged =>
    \A id \in SharedIds : \A k \in NonImageKeys :
       IF k \in DOMAIN LocalJob(id)
       THEN MergedJob(id)[k] = LocalJob(id)[k]
       ELSE SameField(MergedJob(id), RemoteJob(id), k)

C2_Witness ==
  /\ call.merged
  /\ \E id \in SharedIds :
       /\ "carDetails" \notin DOMAIN LocalJob(id)
       /\ "carDetails" \in DOMAIN RemoteJob(id)
       /\ MergedJob(id)["carDetails"] = RemoteJob(id)["carDetails"]
       /\ LocalJob(id)["manualNotes"] # RemoteJob(id)["manualNotes"]
       /\ MergedJob(id)["manualNotes"] = LocalJob(id)["manualNotes"]

\* C3: for an id in both sources the merged damageImages is the local one when
\* that is a non-empty array, and the remote one otherwise.
C3_DamageImagesFallback ==
  call.merged =>
    \A id \in SharedIds :
       Val(MergedJob(id), "damageImages") =
         IF NonEmptyArr(Val(LocalJob(id), "damageImages"))
         THEN LocalJob(id)["damageImages"]
         ELSE Val(RemoteJob(id), "damageImages")

C3_Witness ==
  /\ call.merged
  /\ \E id \in SharedIds :
       /\ Val(LocalJob(id), "damageImages") = <<>>
       /\ Val(RemoteJob(id), "damageImages") # UndefArr
       /\ Len(Val(RemoteJob(id), "damageImages")) = 3
       /\ Len(MergedJob(id)["damageImages"]) = 3

\* C4: for an id in both sources the merged intakeImage is the local one when
\* the local job has one, and the remote one otherwise; an intake image that
\* either source holds is never replaced by no image.
C4_IntakeImageFallback ==
  call.merged =>
    \A id \in SharedIds :
       /\ Val(MergedJob(id), "intakeImage") =
            IF Truthy(Val(LocalJob(id), "intakeImage"))
            THEN LocalJob(id)["intakeImage"]
            ELSE Val(RemoteJob(id), "intakeImage")
       /\ (Truthy(Val(LocalJob(id), "intakeImage"))
           \/ Truthy(Val(RemoteJob(id), "intakeImage")))
          => Truthy(Val(MergedJob(id), "intakeImage"))

C4_Witness ==
  /\ call.merged
  /\ \E id \in SharedIds :
       /\ "intakeImage" \in DOMAIN LocalJob(id)
       /\ LocalJob(id)["intakeImage"] = UndefStr
       /\ Val(RemoteJob(id), "intakeImage") = "R0"
       /\ MergedJob(id)["intakeImage"] = "R0"

\* a >= b on JS numbers: false when either is NaN
GreaterOrEqual(a, b) == a # NaN /\ b # NaN /\ a >= b

\* C5 as stated: the merged list of either orchestrator is ordered by
\* createdAt, every element >= the next one.
C5_MergedIsOrdered ==
  call.merged =>
    \A i \in 1..(Len(call.mergedJobs) - 1) :
       GreaterOrEqual(call.mergedJobs[i]["createdAt"],
                      call.mergedJobs[i + 1]["createdAt"])

\* the job a merged job takes its createdAt from: the last local job with its
\* id, or the last remote job when no local job has the id
SourceJob(id) ==
  IF id \in IdsOf(call.local) THEN LastOf(call.local, id)
  ELSE LastOf(call.remoteJobs, id)

\* C6: after a sync that succeeded, each returned job has the createdAt of
\* the job it came from, and so has the document or the row written for it.
C6_CreatedAtKept ==
  call.outcome = "ok" =>
    /\ \A i \in 1..Len(call.returned) :
         call.returned[i]["createdAt"] =
           SourceJob(call.returned[i]["id"])["createdAt"]
    /\ call.fn = "firebase" =>
         \A i \in 1..Len(call.payload) :
            LET id == call.payload[i]["id"]
            IN /\ id \in DOMAIN fbDocs
               /\ fbDocs[id]["createdAt"] = SourceJob(id)["createdAt"]
    /\ call.fn = "sheets" =>
         /\ Len(call.payload) = Len(call.returned)
         /\ \A i \in 1..Len(call.payload) :
              /\ \E k \in 1..Len(sheet.rows) : sheet.rows[k] = call.payload[i]
              /\ DateParse(call.payload[i][2]) =
                   SourceJob(call.payload[i][1])["createdAt"]

C6_Witness ==
  /\ call.outcome = "ok" /\ call.n = 2
  /\ \E id \in SharedIds :
       /\ LocalJob(id)["createdAt"] # RemoteJob(id)["createdAt"]
       /\ MergedJob(id)["createdAt"] = LocalJob(id)["createdAt"]
  /\ \E id \in IdsOf(call.remoteJobs) \ IdsOf(call.local) :
       MapHas(call.returned, id)

\* the settings the claim requires of each store
RequiredSettingsPresent(fn, s) ==
  IF fn = "firebase"
  THEN /\ "firebaseConfig" \in DOMAIN s
       /\ \A f \in {"apiKey", "authDomain", "projectId", "appId"} :
            s["firebaseConfig"][f] # ""
  ELSE /\ "googleSheetId" \in DOMAIN s /\ s["googleSheetId"] # ""
       /\ "googleAccessToken" \in DOMAIN s /\ s["googleAccessToken"] # ""

\* C7 as stated: a sync called with a required setting absent ends in a
\* configuration error and has issued no remote read or write.
C7_ConfigErrorWhenSettingAbsent ==
  (call.fn # "none" /\ ~RequiredSettingsPresent(call.fn, call.settings)) =>
     /\ call.outcome = "ConfigError"
     /\ call.ops = {}

\* C10 as stated: after syncWithGoogleSheets succeeded, every local job and
\* every job decoded from a data row is in the returned list and in the rows
\* written back.
C10_SheetsDropsNoJob ==
  (call.fn = "sheets" /\ call.outcome = "ok") =>
    \A id \in IdsOf(call.local) \cup IdsOf(call.remoteJobs) :
       /\ MapHas(call.returned, id)
       /\ \E i \in 1..Len(call.payload) : call.payload[i][1] = id

\* C10 amended: every local job and every decoded job whose id is not empty
\* has its id in the returned list and in the rows written back.
C10_SheetsDropsNoJobWithId ==
  (call.fn = "sheets" /\ call.outcome = "ok") =>
    \A id \in (IdsOf(call.local) \cup IdsOf(call.remoteJobs)) \ {""} :
       /\ MapHas(call.returned, id)
       /\ \E i \in 1..Len(call.payload) :
            /\ call.payload[i][1] = id
            /\ \E k \in 1..Len(sheet.rows) : sheet.rows[k] = call.payload[i]

C10_Witness ==
  /\ call.fn = "sheets" /\ call.outcome = "ok"
  /\ "" \in IdsOf(call.remoteJobs)
  /\ (IdsOf(call.remoteJobs) \ IdsOf(call.local)) \ {""} # {}
  /\ (IdsOf(call.local) \ IdsOf(call.remoteJobs)) \ {""} # {}

\* C8: the step in which a sync of the App fails (its catch callback runs)
\* leaves the in-memory job list as it was.
C8_FailedSyncKeepsJobs ==
  [][(Len(inflight') < Len(inflight) /\ syncStatus' = "error")
       => jobs' = jobs]_vars

C8_Witness ==
  /\ call.outcome = "TransportError" /\ "commit" \in call.ops
  /\ syncStatus = "error"
  /\ Len(jobs) >= 2
  /\ IdsOf(jobs) # IdsOf(jobs) \cup DOMAIN fbDocs

\* C9 as stated: at most one sync of the App is in flight at any moment.
C9_AtMostOneSyncInFlight == Cardinality(Pending) <= 1

\* the ids only the local list holds, each held by exactly one local job
LocalOnlyIds ==
  {id \in IdsOf(call.local) \ IdsOf(call.remoteJobs) :
     Cardinality(Occurrences(call.local, id)) = 1}

RemoteOnlyIds == IdsOf(call.remoteJobs) \ IdsOf(call.local)

\* C11: in the merge of syncWithFirebase a job whose id only the local list
\* holds is the local job, field for field, and a job whose id only the
\* remote collection holds is the remote job; an empty local list yields the
\* remote jobs and an empty remote collection the local jobs.
C11_OneSidedJobsUnchanged ==
  (call.fn = "firebase" /\ call.merged) =>
    /\ \A id \in LocalOnlyIds : MergedJob(id) = LocalJob(id)
    /\ \A id \in RemoteOnlyIds : MergedJob(id) = RemoteJob(id)
    /\ call.local = <<>> => Range(call.mergedJobs) = Range(call.remoteJobs)
    /\ (call.remoteJobs = <<>> /\ LocalOnlyIds = IdsOf(call.local))
         => Range(call.mergedJobs) = Range(call.local)

C11_Witness ==
  /\ call.fn = "firebase" /\ call.outcome = "ok"
  /\ \E id \in LocalOnlyIds :
       /\ "intakeImage" \in DOMAIN LocalJob(id)
       /\ LocalJob(id)["intakeImage"] = UndefStr
       /\ MapGet(call.returned, id) = LocalJob(id)
  /\ \E id \in RemoteOnlyIds : MapGet(call.returned, id) = RemoteJob(id)

\* C12: the merged list of either orchestrator holds no two jobs with the
\* same id, whatever ids repeat in the local list or among the remote entries.
C12_MergedIdsDistinct ==
  call.merged =>
    \A i, j \in 1..Len(call.mergedJobs) :
       call.mergedJobs[i]["id"] = call.mergedJobs[j]["id"] => i = j

C12_Witness ==
  /\ call.merged
  /\ \E id \in IdsOf(call.remoteJobs) \cap IdsOf(call.local) :
       /\ Cardinality(Occurrences(call.remoteJobs, id)) = 2
       /\ Cardinality(Occurrences(call.mergedJobs, id)) = 1

\* C13: syncWithFirebase puts into its batch exactly the first
\* min(n, 450) jobs of the merged list, which is in createdAt-descending
\* order; a merged list longer than the cap does not make the sync fail, and
\* the list returned is the complete merged list.
C13_BatchIsFirstJobsUpToCap ==
  (call.fn = "firebase" /\ call.merged) =>
    /\ \A i \in 1..(Len(call.mergedJobs) - 1) :
         call.mergedJobs[i]["createdAt"] >= call.mergedJobs[i + 1]["createdAt"]
    /\ (call.pc = "commit" \/ call.outcome = "ok") =>
         /\ Len(call.payload) = Min(Len(call.mergedJobs), 450)
         /\ \A i \in 1..Len(call.payload) :
              call.payload[i]["id"] = call.mergedJobs[i]["id"]
    /\ call.outcome = "ok" =>
         /\ call.returned = call.mergedJobs
         /\ IdsOf(call.payload) \subseteq DOMAIN fbDocs
         /\ \A i \in 1..Len(call.mergedJobs) :
              (i > 450 /\ call.mergedJobs[i]["id"] \notin IdsOf(call.remoteJobs))
                => call.mergedJobs[i]["id"] \notin DOMAIN fbDocs
    /\ (Len(call.mergedJobs) > 450 /\ "" \notin IdsOf(call.mergedJobs))
         => (call.pc = "done" => "commit" \in call.ops)

C13_Witness ==
  /\ call.fn = "firebase" /\ call.outcome = "ok"
  /\ Len(call.returned) = 452
  /\ Len(call.payload) = 450
  /\ Cardinality(DOMAIN fbDocs) = 450
  /\ call.returned[1]["id"] = "c"

\* C14 as stated: when syncWithGoogleSheets cannot read the data rows, the
\* sync does not succeed and issues neither the clear nor the append.
C14_ReadFailureWritesNothing ==
  (call.fn = "sheets" /\ call.readFailed) =>
     /\ call.outcome # "ok"
     /\ "clear" \notin call.ops
     /\ "append" \notin call.ops

\* C15 as stated: after a successful syncWithGoogleSheets the data rows of
\* the sheet are exactly the rows jobToRow makes of the merged jobs, in merged
\* order, with no row of before the sync left.
C15_SheetHoldsExactlyMergedRows ==
  (call.fn = "sheets" /\ call.outcome = "ok") =>
     sheet.rows = [i \in 1..Len(call.mergedJobs) |-> JobToRow(call.mergedJobs[i])]

\* ensureSheetExists has returned to syncWithGoogleSheets
EnsureReturned ==
  call.fn = "sheets" /\ (call.pc \in {"read", "clear", "append"} \/ "read" \in call.ops)

\* C16 as stated: whenever ensureSheetExists has returned successfully the tab
\* exists and its row 1 holds the header row.
C16_EnsuredSheetHasHeader ==
  EnsureReturned => (sheet.exists /\ sheet.header = Headers)

\* the job and the row of a codec call, and the job decoded
CodecJob == call.local[1]
CodecRow == call.payload[1]
Decoded == call.returned[1]

\* the text fields a row has a cell for come back as they were, and the
\* images come back empty
TextFieldsKept(job, decoded) ==
  /\ decoded["id"] = job["id"]
  /\ decoded["createdAt"] = job["createdAt"]
  /\ decoded["status"] = job["status"]
  /\ decoded["repairType"] = job["repairType"]
  /\ decoded["manualNotes"] = job["manualNotes"]
  /\ \A f \in {"plate", "make", "model"} :
       decoded["carDetails"][f] = CarField(job, f)
  /\ decoded["intakeImage"] = UndefStr
  /\ decoded["damageImages"] = <<>>

HasComma(part) == \E i \in 1..Len(part) : part[i] = ","

NoPartHasComma(job) ==
  \A i \in 1..Len(job["identifiedParts"]) : ~HasComma(job["identifiedParts"][i])

\* C17 as stated: the round trip keeps every text field, all the fields of
\* carDetails among them, empties the images, and keeps identifiedParts
\* whenever no part contains a comma.
C17_RoundTripKeepsAllText ==
  (call.fn = "roundTrip" /\ call.outcome = "ok") =>
     /\ TextFieldsKept(CodecJob, Decoded)
     /\ "carDetails" \in DOMAIN CodecJob =>
          \A f \in DOMAIN CodecJob["carDetails"] :
             /\ f \in DOMAIN Decoded["carDetails"]
             /\ Decoded["carDetails"][f] = CodecJob["carDetails"][f]
     /\ NoPartHasComma(CodecJob) =>
          Decoded["identifiedParts"] = CodecJob["identifiedParts"]

\* C17 amended: the round trip keeps id, createdAt, status, repairType,
\* manualNotes and the plate, make and model of carDetails, empties the
\* images, and keeps identifiedParts whenever no part contains a comma and
\* the list is not the single empty part.
C17_RoundTripKeepsRowText ==
  (call.fn = "roundTrip" /\ call.outcome = "ok") =>
     /\ TextFieldsKept(CodecJob, Decoded)
     /\ DOMAIN Decoded["carDetails"] = {"plate", "make", "model"}
     /\ (NoPartHasComma(CodecJob) /\ CodecJob["identifiedParts"] # << <<>> >>) =>
          Decoded["identifiedParts"] = CodecJob["identifiedParts"]

C17_Witness ==
  /\ call.fn = "roundTrip" /\ call.outcome = "ok"
  /\ "carDetails" \in DOMAIN CodecJob
  /\ "color" \in DOMAIN CodecJob["carDetails"]
  /\ "color" \notin DOMAIN Decoded["carDetails"]
  /\ Len(CodecJob["damageImages"]) = 3
  /\ Len(CodecJob["identifiedParts"]) = 2
  /\ Decoded["identifiedParts"] = CodecJob["identifiedParts"]

\* a cell the row lacks or holds empty
NoCell(row, k) == k > Len(row) \/ row[k] = ""

\* C18 as stated: rowToJob never raises, and a missing or malformed cell
\* yields its default.
C18_RowToJobNeverRaises ==
  call.fn = "rowToJob" =>
     /\ call.outcome = "ok"
     /\ NoCell(CodecRow, 3) => Decoded["status"] = "Ingreso"
     /\ NoCell(CodecRow, 7) => Decoded["repairType"] = "AMBOS"
     /\ NoCell(CodecRow, 9) => Decoded["manualNotes"] = ""
     /\ (Len(CodecRow) < 8 \/ CodecRow[8] = <<>>) => Decoded["identifiedParts"] = <<>>
     /\ (NoCell(CodecRow, 11) \/ JsonParse(CodecRow[11]).throws)
          => Decoded["damageImages"] = <<>>

\* C19 as stated: the createdAt rowToJob gives is always a valid number, and
\* is the current time when the date cell is missing or is no date.
C19_CreatedAtAlwaysValid ==
  (call.fn = "rowToJob" /\ call.outcome = "ok") =>
     /\ Decoded["createdAt"] # NaN
     /\ (NoCell(CodecRow, 2) \/ \A t \in Times : CodecRow[2] # IsoOf[t])
          => Decoded["createdAt"] \in NowTimes

\* C20 as stated: for every job jobToRow returns a row, of 11 fields in the
\* order of the header row, the two image fields being the string "[]".
C20_RowHasElevenFields ==
  call.fn = "jobToRow" =>
     /\ call.outcome = "ok"
     /\ call.outcome = "ok" =>
          /\ Len(CodecRow) = 11 /\ Len(Headers) = 11
          /\ CodecRow[1] = CodecJob["id"]
          /\ DateParse(CodecRow[2]) = CodecJob["createdAt"]
          /\ CodecRow[3] = CodecJob["status"]
          /\ CodecRow[4] = CarField(CodecJob, "plate")
          /\ CodecRow[5] = CarField(CodecJob, "make")
          /\ CodecRow[6] = CarField(CodecJob, "model")
          /\ CodecRow[7] = CodecJob["repairType"]
          /\ CodecRow[8] = Join(CodecJob["identifiedParts"])
          /\ CodecRow[9] = CodecJob["manualNotes"]
          /\ CodecRow[10] = "[]"
          /\ CodecRow[11] = "[]"

(***************************************************************************)
(* Errors of the spreadsheet backend                                       *)
(***************************************************************************)
\* the cause a failed response stands for
Cause(status) ==
  IF status = 401 \/ status = 403 THEN "permission"
  ELSE IF status = 404 THEN "notFound"
  ELSE "connection"

\* a step of syncWithGoogleSheets whose fetch ended with this status
SheetStep(status) ==
  \/ ShMeta(status)
  \/ ShAddSheet(status)
  \/ ShHeader(status)
  \/ ShClear(status)
  \/ ShRead(status)
  \/ ShAppend(status)

\* C21: a sync that ends with an error of the spreadsheet backend names the
\* cause: no step that ends the sync so after one failed status would have
\* ended it in the same way after a status of another cause (permission for
\* 401 and 403, not found for 404, connection for everything else).
C21_DistinctErrorPerCause ==
  [][\A s1, s2 \in Responses \ {200} :
       (/\ Cause(s1) # Cause(s2)
        /\ call'.pc = "done" /\ call'.outcome = "TransportError"
        /\ SheetStep(s1)) => ~SheetStep(s2)]_vars

(***************************************************************************)
(* The image normaliser                                                    *)
(***************************************************************************)
\* the argument and the settled promise of the compressImage call
ImgArg == call.payload[1]
ImgResult == call.returned[1]
CompressDone == call.fn = "compressImage" /\ call.pc = "done"

\* C22: compressImage never rejects and always settles: while the promise is
\* pending one of the two handlers of the image can run, the promise is
\* always resolved, and with the argument itself when the image does not
\* decode or the canvas has no context; every wait of prepareJobForCloud
\* ends, and it returns the job with the image that does not decode left as
\* it was, and every image left as it was when the canvas has no context.
C22_CompressImageFailsSoft ==
  /\ (call.fn = "compressImage" /\ call.pc = "pending")
        => ENABLED (ImgError \/ ImgLoad)
  /\ CompressDone =>
       /\ call.outcome = "resolved"
       /\ call.ops \cap {"error", "noContext"} # {} => ImgResult.value = ImgArg
  /\ (call.fn = "prepareJobForCloud" /\ call.pc # "done")
        => ENABLED (PrepareIntakeSettled \/ PrepareDamageSettled)
  /\ (call.fn = "prepareJobForCloud" /\ call.pc = "done") =>
       /\ call.outcome = "ok"
       /\ ~canvas => call.returned[1] = call.local[1]
       /\ \A k \in DOMAIN call.local[1] : k \in DOMAIN call.returned[1]
       /\ \A k \in DOMAIN call.local[1] \ ImageKeys :
            call.returned[1][k] = call.local[1][k]
       /\ (Truthy(Val(call.local[1], "intakeImage"))
             /\ call.local[1]["intakeImage"] \in CorruptImages)
            => call.returned[1]["intakeImage"] = call.local[1]["intakeImage"]
       /\ NonEmptyArr(Val(call.local[1], "damageImages")) =>
            \A i \in 1..Len(call.local[1]["damageImages"]) :
               call.local[1]["damageImages"][i] \in CorruptImages
                 => call.returned[1]["damageImages"][i]
                      = call.local[1]["damageImages"][i]

C22_Witness ==
  /\ CompressDone /\ ImgArg \in CorruptImages
  /\ call.outcome = "resolved" /\ ImgResult.value = ImgArg

\* the output height is the source height scaled by MaxWidth / width and
\* rounded to the nearest integer, a half being rounded up
ScaledHeight(out, src) ==
  /\ 2 * out.height * src.width - src.width <= 2 * src.height * MaxWidth
  /\ 2 * src.height * MaxWidth < 2 * out.height * src.width + src.width

NoUpscaleKeepsRatio ==
  LET src == ImgSize(ImgArg)
      out == ImgResult.size
  IN /\ src.width <= MaxWidth => out = src
     /\ src.width > MaxWidth => out.width = MaxWidth /\ ScaledHeight(out, src)

\* C23 as stated: whenever compressImage is given an image that decodes, the
\* output has the source dimensions for a width up to the maximum and the
\* maximum width with the rounded scaled height for a wider one.
C23_OutputIsScaledToMaxWidth ==
  (CompressDone /\ ImgArg \notin CorruptImages) => NoUpscaleKeepsRatio

\* C23, amended: whenever compressImage draws the image (it decodes and the
\* canvas has a 2d context), the output has the source dimensions for a width
\* up to the maximum, and the maximum width with the rounded scaled height
\* for a wider one; without a context the output is the input, with the
\* source dimensions whatever its width.
C23_DrawnOutputIsScaledToMaxWidth ==
  /\ (CompressDone /\ "load" \in call.ops) => NoUpscaleKeepsRatio
  /\ (CompressDone /\ "noContext" \in call.ops)
        => ImgResult.size = ImgSize(ImgArg) /\ ImgResult.value = ImgArg

C23_Witness ==
  /\ CompressDone /\ "load" \in call.ops
  /\ ImgSize(ImgArg) = [width |-> 1600, height |-> 601]
  /\ ImgResult.size = [width |-> MaxWidth, height |-> 301]

(***************************************************************************)
(* The documents written by syncWithFirebase                               *)
(***************************************************************************)
FirebaseSucceeded ==
  call.fn = "firebase" /\ call.pc = "done" /\ call.outcome = "ok"

\* the document of a merged job as the claim describes it: the images
\* normalised, the fields without a value absent
DocumentOf(job) == CleanData(PrepareJobForCloud(job, Canvas))

\* C24: after a successful syncWithFirebase whose merged list has at most
\* 450 jobs the collection holds for every merged job a document with
\* exactly the fields of the job (images normalised, undefined fields
\* absent, carDetails included), and every document read by the sync is
\* still in the collection.
C24_RemoteHoldsMergedJobs ==
  (FirebaseSucceeded /\ Len(call.mergedJobs) <= BatchCap) =>
     /\ \A i \in 1..Len(call.mergedJobs) :
          /\ call.mergedJobs[i]["id"] \in DOMAIN fbDocs
          /\ fbDocs[call.mergedJobs[i]["id"]] = DocumentOf(call.mergedJobs[i])
     /\ \A i \in 1..Len(call.remoteJobs) :
          call.remoteJobs[i]["id"] \in DOMAIN fbDocs

(***************************************************************************)
(* Edits made while a sync is in flight                                    *)
(***************************************************************************)
\* the id of the job handleJobCreated added in this run of the App
CreatedId == NewIds[1]

\* every sync the App started has settled and its callback has run
AllSyncsSettled == inflight = <<>>

\* C25: once every sync in flight has settled, in whatever order, the job
\* list in memory holds the job that handleJobCreated added, and so does the
\* remote collection when the last sync to settle succeeded under the
\* current configuration.
C25_NoEditLostByInterleaving ==
  (run.created > 0 /\ AllSyncsSettled) =>
     /\ CreatedId \in IdsOf(jobs)
     /\ (syncStatus = "synced" /\ "firebaseConfig" \in DOMAIN settings)
          => CreatedId \in DOMAIN fbDocs

(***************************************************************************)
(* Damage images removed in the details modal                              *)
(***************************************************************************)
\* the latest handleUpdateJob call came from the details modal, which passes
\* the whole edited job, a damage image removed
ModalEdit == run.edits > 0 /\ "id" \in DOMAIN run.edited.updates

\* the job list a sync was started with holds the job as the modal saved it
CarriesEdit(c) ==
  \E k \in 1..Len(c.local) :
     /\ c.local[k]["id"] = run.edited.id
     /\ DamageOf(c.local[k]) = run.edited.updates["damageImages"]

\* the callback of the i-th sync in flight runs in this step, after success
SyncResolves(i) ==
  /\ i \in 1..Len(inflight)
  /\ inflight' = Splice(inflight, i)
  /\ syncStatus' = "synced"

\* C26: when a sync started with the job as the modal saved it succeeds, the
\* damageImages of that job in the job list are the list as edited, also
\* when the edit removed the last image.
C26_RemovedImagesStayRemoved ==
  [][\A i \in 1..MaxInflight :
       (SyncResolves(i) /\ ModalEdit /\ CarriesEdit(inflight[i])) =>
          \A k \in 1..Len(jobs') :
             jobs'[k]["id"] = run.edited.id
               => DamageOf(jobs'[k]) = run.edited.updates["damageImages"]]_vars

(***************************************************************************)
(* The sheet after a failed syncWithGoogleSheets                           *)
(***************************************************************************)
SheetsFailed ==
  call.fn = "sheets" /\ call.pc = "done" /\ call.outcome # "ok"

\* the ids in column A of the data rows
RowIds == {sheet.rows[i][1] : i \in {k \in 1..Len(sheet.rows) : Len(sheet.rows[k]) > 0}}

\* C27: when syncWithGoogleSheets fails, every job it read from the sheet
\* still has its row: no row stored before the sync has been removed.
C27_FailedSyncKeepsRows ==
  (SheetsFailed /\ "read" \in call.ops /\ ~call.readFailed) =>
     \A i \in 1..Len(call.remoteJobs) : call.remoteJobs[i]["id"] \in RowIds

(***************************************************************************)
(* A second sync with the list the first one returned                      *)
(***************************************************************************)
SheetsSucceeded ==
  call.fn = "sheets" /\ call.pc = "done" /\ call.outcome = "ok"

\* the lists syncWithFirebase(call.returned, settings) can return now
FirebaseAgain == SortOutcomes(MergeFirebase(call.returned, Snapshot(fbDocs)))

\* the collection after that call
DocsAfter(merged) ==
  IF Len(JobsToSave(merged)) > 0
  THEN CommitBatch(fbDocs, BatchPayload(merged, Canvas)) ELSE fbDocs

\* the lists syncWithGoogleSheets(call.returned, settings) can return now,
\* the tab being there and every request answering 200
SheetsAgain(nows) ==
  SortOutcomes(MergeSheets(call.returned,
     IF \A i \in 1..Len(sheet.rows) : ~RowToJobThrows(sheet.rows[i])
     THEN DecodeRows(sheet.rows, nows) ELSE <<>>))

\* C28: once a sync has succeeded, a second call with the returned list as
\* local, nothing else having written to the store, returns the same list
\* and leaves the store as it is.
C28_SecondSyncIsFixedPoint ==
  /\ FirebaseSucceeded =>
       \A merged \in FirebaseAgain :
          /\ merged = call.returned
          /\ (\A i \in 1..Len(JobsToSave(merged)) : JobsToSave(merged)[i]["id"] # "")
               => DocsAfter(merged) = fbDocs
  /\ SheetsSucceeded =>
       \A nows \in Clocks(sheet.rows) : \A merged \in SheetsAgain(nows) :
          /\ merged = call.returned
          /\ (\A i \in 1..Len(merged) : ~ToISOStringThrows(merged[i]["createdAt"]))
               => [i \in 1..Len(merged) |-> JobToRow(merged[i])] = sheet.rows

(***************************************************************************)
(* The sync status indicator                                               *)
(***************************************************************************)
\* (once the render that shows the state set by the mount effect has run)
SyncingWhileInFlight ==
  (inflight # <<>> /\ ~run.pending) => syncStatus = "syncing"

\* the last sync in flight settles in this step, with a failure
LastSyncFails ==
  /\ Len(inflight) = 1 /\ inflight' = <<>>
  /\ call'.outcome # "ok"

ErrorStaysUntilNextSync ==
  (inflight = <<>> /\ syncStatus = "error" /\ syncStatus' # "error")
     => inflight' # <<>>

TimerLeavesLaterStatus ==
  timers' < timers => syncStatus \notin {"syncing", "error"}

\* C29: the status is 'syncing' while a sync is in flight; when the last
\* sync in flight fails it becomes 'error' and stays 'error' until a sync
\* starts; a timer never fires on the status 'syncing' or 'error'.
C29_StatusReflectsLatestSync ==
  /\ []SyncingWhileInFlight
  /\ [][/\ LastSyncFails => syncStatus' = "error"
        /\ ErrorStaysUntilNextSync
        /\ TimerLeavesLaterStatus]_vars

(***************************************************************************)
(* The inputs of syncWithFirebase after the call                           *)
(***************************************************************************)
\* the images the local and the remote jobs with this id came with
IntakeSources(id) ==
  {j["intakeImage"] : j \in {x \in Range(call.local) \cup Range(call.remoteJobs) :
                               x["id"] = id /\ "intakeImage" \in DOMAIN x}}
DamageSources(id) ==
  {j["damageImages"] : j \in {x \in Range(call.local) \cup Range(call.remoteJobs) :
                                x["id"] = id /\ "damageImages" \in DOMAIN x}}

\* C30: after a syncWithFirebase call that wrote its batch the jobs of the
\* local list are as they were given, and every image of a returned job is
\* an image a local or a remote job with that id came with, not the
\* compressed copy written to the collection.
C30_InputsNotModified ==
  (FirebaseSucceeded /\ "commit" \in call.ops) =>
     /\ LocalAfterBatch(call) = call.local
     /\ \A i \in 1..Len(call.returned) :
          LET job == call.returned[i]
          IN /\ Truthy(Val(job, "intakeImage"))
                  => job["intakeImage"] \in IntakeSources(job["id"])
             /\ NonEmptyArr(Val(job, "damageImages"))
                  => job["damageImages"] \in DamageSources(job["id"])

\* a local-only job with images that compress to something else was written
\* and came back as it was
C30_Witness ==
  /\ FirebaseSucceeded /\ "commit" \in call.ops
  /\ \E k \in 1..Len(call.local), i \in 1..Len(call.returned) :
       /\ call.remoteJobs = <<>>
       /\ Truthy(Val(call.local[k], "intakeImage"))
       /\ call.returned[i] = call.local[k]
       /\ call.payload[i]["intakeImage"] = CompressImage(call.local[k]["intakeImage"], Canvas)
       /\ call.payload[i]["intakeImage"] # call.local[k]["intakeImage"]

====
